---- MODULE Spec2Model ----
(***************************************************************************)
(* A model of src/index.ts: the regtest fixture generator that drives a    *)
(* bitcoin node over JSON-RPC (wallet acquisition, mining, wallet sync,    *)
(* signer key extraction, multisig assembly and the scenario generators).  *)
(*                                                                         *)
(* The program is one sequential async control flow.  It is modelled as a  *)
(* program counter `pc` (one label per awaited RPC call or local step), a  *)
(* stack of return frames (each frame remembers the catch handler that     *)
(* encloses the call site) and the functions' local variables.  The node   *)
(* is the environment: every RPC step draws its answer from the set of     *)
(* answers the node can give in its present state.                         *)
(***************************************************************************)
EXTENDS Integers, Sequences, FiniteSets, TLC

VARIABLES
    pc,        \* label of the next step of the program
    stack,     \* return frames, innermost first
    thrown,    \* the error being propagated / last thrown (NoErr if none)
    origin,    \* label of the step that threw it ("none" if none)
    wstate,    \* node: wallet name -> "none" | "disk" | "loaded"
    height,    \* node: height of the chain
    nextAddr,  \* node: the next fresh address getnewaddress hands out
    aname,     \* loadOrCreateWallet: its argument `name`
    calls,     \* loadOrCreateWallet: the RPC calls issued by the current call
    handle,    \* loadOrCreateWallet: the wallet the returned client is bound to
    faulty,    \* the node failed an RPC it could have served in its state
    loads,     \* successful loadwallet/createwallet RPCs of the current call
    pre,       \* node state of `aname` when the current call started
    ncalls,    \* acquisition driver: calls completed
    last,      \* acquisition driver: outcome of the latest completed call
    prev,      \* acquisition driver: outcome of the call before it
    mwallet,   \* mine: the wallet of its argument `client`
    mblocks,   \* mine: its argument `blocks`
    swallet,   \* syncWallet: the wallet of its argument `client`
    attempts,  \* syncWallet: its local `attempts`
    currentHeight, \* syncWallet: its local `currentHeight`
    polls,     \* getbalance queries issued by the current syncWallet
    rescans,   \* rescanblockchain calls issued by the current syncWallet
    unsynced,  \* wallets mined to and neither synchronized nor rescanned since
    scn,       \* createTwoSignerWallets / setup: `scenarioName`
    i,         \* createTwoSignerWallets: loop index
    signers,   \* createTwoSignerWallets: the signers pushed so far
    wallet,    \* createTwoSignerWallets: the wallet of the current slot
    currentBalance, \* createTwoSignerWallets: `currentBalance`
    xpub,      \* createTwoSignerWallets: `xpub`
    xfp,       \* createTwoSignerWallets: `xfp`
    pubkey,    \* createTwoSignerWallets: `pubkey`
    balance,   \* setupMultisigWithTwoWallets: `balance`
    j,         \* setupMultisigWithTwoWallets: position in `for (signer of signers)`
    coordinatorWallet, \* setupMultisigWithTwoWallets: `coordinatorWallet`
    multisig,  \* setupMultisigWithTwoWallets: `multisigRes`
    fundingTxid, \* setupMultisigWithTwoWallets: `fundingTxid`
    loopIx,    \* wasteHeavy: the loop index `i` of the running pattern
    dustOutputs, \* wasteHeavy: `dustOutputs`, address -> amount
    utxos,     \* wasteHeavy: `smallUtxos` (step 4), `suitableInputs` (step 5)
    amount,    \* wasteHeavy: `outputAmount`
    txid,      \* wasteHeavy: `txid` of the RBF step
    bumps,     \* wasteHeavy: the bumpfee calls issued
    signer1,   \* testMultisigSpending: `signer1`
    signer2,   \* testMultisigSpending: `signer2`
    tutxos,    \* testMultisigSpending: `utxos`
    signed1,   \* testMultisigSpending: `signed1`
    signed2,   \* testMultisigSpending: `signed2`
    argScenario, \* argv.scenario
    test,      \* argv.test
    exitCode,  \* exit code of the process (-1 while it runs)
    fixtures,  \* the fixture files written, scenario name -> configuration
    addr,      \* privacyGood: `addr` of the current round
    reusedAddr, \* privacyBad: `reusedAddr`
    sends      \* the transactions the node accepted from the sends that are logged

ctlVars == <<pc, stack, thrown, origin>>
nodeVars == <<wstate, height, nextAddr>>
ctsVars == <<scn, i, signers, wallet, currentBalance, xpub, xfp, pubkey>>
smVars == <<balance, j, coordinatorWallet, multisig, fundingTxid>>
whVars == <<loopIx, dustOutputs, utxos, amount, txid, bumps>>
tmsVars == <<signer1, signer2, tutxos, signed1, signed2>>
runVars == <<argScenario, test, exitCode, fixtures>>
pvVars == <<addr, reusedAddr, sends>>
acqVars == <<aname, calls, handle, faulty, loads, pre>>
drvVars == <<ncalls, last, prev>>
mineVars == <<mwallet, mblocks>>
syncVars == <<swallet, attempts, currentHeight, polls, rescans>>
vars == <<pc, stack, thrown, origin, wstate, height, nextAddr, aname, calls,
          handle, faulty, loads, pre, ncalls, last, prev, mwallet, mblocks,
          swallet, attempts, currentHeight, polls, rescans, unsynced,
          scn, i, signers, wallet, currentBalance, xpub, xfp, pubkey,
          balance, j, coordinatorWallet, multisig, fundingTxid,
          loopIx, dustOutputs, utxos, amount, txid, bumps,
          signer1, signer2, tutxos, signed1, signed2, argScenario, test, exitCode, fixtures,
          addr, reusedAddr, sends>>

\* everything outside control, a function's own variables and the node
progVars == <<ctsVars, smVars, whVars, tmsVars, runVars, pvVars>>
notAcq == <<height, nextAddr, drvVars, mineVars, syncVars, unsynced, progVars>>
notMine == <<wstate, acqVars, drvVars, syncVars, progVars>>
notSync == <<nodeVars, acqVars, drvVars, mineVars, progVars>>
notDrv == <<nodeVars, mineVars, syncVars, unsynced, progVars>>

----------------------------------------------------------------------------
(* Bounds of the model *)

\* number of loadOrCreateWallet calls the acquisition driver makes
MaxCalls == 3

\* number of mine-then-synchronize rounds the synchronization driver makes
MaxRounds == 2

----------------------------------------------------------------------------
(* Names and errors *)

\* `${scenarioName}_signer_${i + 1}` for the scenario the runner has enabled
SignerName(scenario, idx) ==
    IF idx = 0 THEN scenario \o "_signer_1" ELSE scenario \o "_signer_2"

Names == {SignerName("waste_heavy", 0), SignerName("waste_heavy", 1)}

\* cfg.wallet of configs/regtest.json: the wallet of the base configuration
CfgWallet == "cfg_wallet"

WalletStates == {"none", "disk", "loaded"}

\* An error is its JSON-RPC code and its message, a sequence of words.
NoErr == [code |-> 0, msg |-> <<>>]
DbPhrase == <<"Database", "already", "exists">>
E_DbExists == [code |-> -4,
               msg |-> <<"Wallet", "file", "verification", "failed",
                         "Database", "already", "exists">>]
E_Verify == [code |-> -4, msg |-> <<"Wallet", "file", "verification", "failed">>]
E_NotFound == [code |-> -18, msg |-> <<"Path", "does", "not", "exist">>]
E_AlreadyLoaded == [code |-> -35, msg |-> <<"Wallet", "is", "already", "loaded">>]
E_Misc == [code |-> -1, msg |-> <<"Database", "already", "exists">>]
E_Warmup == [code |-> -28, msg |-> <<"Loading", "wallet">>]
\* any failure of an RPC outside wallet acquisition
E_Rpc == [code |-> -1, msg |-> <<"rpc", "failed">>]

\* String.prototype.includes on messages: t occurs in s as a contiguous run
Includes(s, t) ==
    \E k \in 1..(Len(s) - Len(t) + 1) : SubSeq(s, k, k + Len(t) - 1) = t

----------------------------------------------------------------------------
(* Control: calls, returns and exceptions *)

Frame(ret, catch) == [ret |-> ret, catch |-> catch]

RECURSIVE Unwind(_)
\* a thrown error leaves every frame whose call site is in no try block
Unwind(s) ==
    IF s = <<>> THEN [pc |-> "uncaught", stack |-> <<>>]
    ELSE IF Head(s).catch # "none"
         THEN [pc |-> Head(s).catch, stack |-> Tail(s)]
         ELSE Unwind(Tail(s))

Goto(l) == pc' = l /\ UNCHANGED <<stack, thrown, origin>>

CallFn(entry, ret, catch) ==
    /\ pc' = entry
    /\ stack' = <<Frame(ret, catch)>> \o stack
    /\ UNCHANGED <<thrown, origin>>

Return ==
    /\ pc' = Head(stack).ret
    /\ stack' = Tail(stack)
    /\ UNCHANGED <<thrown, origin>>

Throw(e) ==
    /\ pc' = Unwind(stack).pc
    /\ stack' = Unwind(stack).stack
    /\ thrown' = e
    /\ origin' = pc

\* an error caught by a try block of the function that is running, whose
\* handler only logs it: control continues at the handler, nothing propagates
Catch(e, handler) ==
    /\ e # NoErr
    /\ pc' = handler
    /\ UNCHANGED <<stack, thrown, origin>>

----------------------------------------------------------------------------
(* The node's wallet RPCs.  A response is the error (NoErr on success),    *)
(* the wallet's state afterwards and whether the node injected a fault.    *)

Resp(e, post, fault) == [err |-> e, post |-> post, fault |-> fault]

\* listwallets: the names of the loaded wallets
ListWallets == {n \in DOMAIN wstate : wstate[n] = "loaded"}

\* errors the node may answer whatever the wallet's state
LoadFaults == {E_Verify, E_Warmup}
CreateFaults == {E_Verify, E_Warmup, E_Misc}

LoadWalletResponses(n) ==
    (CASE wstate[n] = "disk" -> {Resp(NoErr, "loaded", FALSE)}
       [] wstate[n] = "none" -> {Resp(E_NotFound, "none", FALSE)}
       [] OTHER -> {Resp(E_AlreadyLoaded, "loaded", FALSE)})
    \cup {Resp(e, wstate[n], wstate[n] = "disk") : e \in LoadFaults}

CreateWalletResponses(n) ==
    (CASE wstate[n] = "none" -> {Resp(NoErr, "loaded", FALSE)}
       [] OTHER -> {Resp(E_DbExists, wstate[n], FALSE)})
    \cup {Resp(e, wstate[n], wstate[n] = "none") : e \in CreateFaults}

----------------------------------------------------------------------------
(* loadOrCreateWallet (src/index.ts 34-68) *)

Logged(m, e) == [m |-> m, err |-> e]

AlreadyLoaded_NoCheck(wallets, name) == FALSE

\* line 37: wallets.includes(name)
AlreadyLoaded(wallets, name) == name \in wallets

IsDatabaseConflict_AnyCode(e) == Includes(e.msg, DbPhrase)

\* line 48: createError.code === -4 && message.includes("Database already exists")
IsDatabaseConflict(e) == e.code = -4 /\ Includes(e.msg, DbPhrase)

NewClient_CfgWallet(name) == CfgWallet

\* lines 62-67: the client returned is bound to `wallet: name`
NewClient(name) == name

\* entry of loadOrCreateWallet(n), called with return label and catch handler
EnterAcquire(n, ret, catch) ==
    /\ aname' = n
    /\ calls' = <<>>
    /\ faulty' = FALSE
    /\ loads' = 0
    /\ pre' = wstate[n]
    /\ handle' = "none"
    /\ CallFn("acq_list", ret, catch)

\* the record of a call ends when its caller has taken the client
AcqTaken ==
    /\ aname' = "none"
    /\ calls' = <<>>
    /\ faulty' = FALSE
    /\ loads' = 0
    /\ pre' = "none"
    /\ UNCHANGED handle

\* line 36-39: listwallets; the outer catch (57-60) rethrows its failure
AcqList ==
    /\ pc = "acq_list"
    /\ \/ /\ calls' = Append(calls, Logged("listwallets", NoErr))
          /\ IF AlreadyLoaded(ListWallets, aname)
             THEN Goto("acq_new")
             ELSE Goto("acq_load")
          /\ UNCHANGED faulty
       \/ /\ calls' = Append(calls, Logged("listwallets", E_Warmup))
          /\ faulty' = TRUE
          /\ Throw(E_Warmup)
    /\ UNCHANGED <<wstate, aname, handle, loads, pre, notAcq>>

\* line 41-43: loadwallet; its failure is caught and leads to createwallet
AcqLoad ==
    /\ pc = "acq_load"
    /\ \E r \in LoadWalletResponses(aname) :
        /\ calls' = Append(calls, Logged("loadwallet", r.err))
        /\ wstate' = [wstate EXCEPT ![aname] = r.post]
        /\ faulty' = (faulty \/ r.fault)
        /\ IF r.err = NoErr
           THEN loads' = loads + 1 /\ Goto("acq_new")
           ELSE loads' = loads /\ Goto("acq_create")
    /\ UNCHANGED <<aname, handle, pre, notAcq>>

\* line 45-53: createwallet; a database conflict leads to a second loadwallet,
\* any other failure is rethrown (52) through the outer catch (57-60)
AcqCreate ==
    /\ pc = "acq_create"
    /\ \E r \in CreateWalletResponses(aname) :
        /\ calls' = Append(calls, Logged("createwallet", r.err))
        /\ wstate' = [wstate EXCEPT ![aname] = r.post]
        /\ faulty' = (faulty \/ r.fault)
        /\ IF r.err = NoErr
           THEN loads' = loads + 1 /\ Goto("acq_new")
           ELSE /\ loads' = loads
                /\ IF IsDatabaseConflict(r.err)
                   THEN Goto("acq_reload")
                   ELSE Throw(r.err)
    /\ UNCHANGED <<aname, handle, pre, notAcq>>

\* line 49-50: the second loadwallet; its failure leaves through the outer catch
AcqReload ==
    /\ pc = "acq_reload"
    /\ \E r \in LoadWalletResponses(aname) :
        /\ calls' = Append(calls, Logged("loadwallet", r.err))
        /\ wstate' = [wstate EXCEPT ![aname] = r.post]
        /\ faulty' = (faulty \/ r.fault)
        /\ IF r.err = NoErr
           THEN loads' = loads + 1 /\ Goto("acq_new")
           ELSE loads' = loads /\ Throw(r.err)
    /\ UNCHANGED <<aname, handle, pre, notAcq>>

\* line 62-67: return the client bound to the wallet
AcqReturn ==
    /\ pc = "acq_new"
    /\ handle' = NewClient(aname)
    /\ Return
    /\ UNCHANGED <<wstate, aname, calls, faulty, loads, pre, notAcq>>

AcquireSteps == AcqList \/ AcqLoad \/ AcqCreate \/ AcqReload \/ AcqReturn

----------------------------------------------------------------------------
(* The node's other RPCs: a result is the error (NoErr on success) and the *)
(* value returned.                                                         *)

Result(e, v) == [err |-> e, val |-> v]

\* amounts are in units of 0.00001 BTC, the dust amount of line 357 and the
\* smallest amount the program compares or subtracts
COIN == 100000

Btc(n) == n * COIN

\* balances the node may report, on either side of every threshold
BalanceValues == {Btc(0), Btc(5), Btc(12), Btc(15), Btc(20), Btc(60)}

\* getbalance: a balance, or a failure
BalanceResponses == {Result(NoErr, b) : b \in BalanceValues} \cup {Result(E_Rpc, 0)}

\* an RPC whose returned value the program does not look into
PlainResponses == {Result(NoErr, 0), Result(E_Rpc, 0)}

\* getnewaddress: a fresh address, or a failure
AddressResponses == {Result(NoErr, nextAddr), Result(E_Rpc, 0)}

\* the node's address counter after answering r
AddrAfter(r) == IF r.err = NoErr THEN nextAddr + 1 ELSE nextAddr

\* what createmultisig(n, keys) computes: a function of n and the ordered keys
Script(kind, n, keys) == [kind |-> kind, required |-> n, keys |-> keys]

MultisigOf(n, keys) ==
    [address |-> Script("address", n, keys),
     redeemScript |-> Script("redeemScript", n, keys)]

NoMultisig == MultisigOf(0, <<>>)

\* an unspent output as listunspent reports it
Utxo(t, a) == [txid |-> t, vout |-> 0, amount |-> a]

\* a transaction the node accepted: the RPC that broadcast it, its destination,
\* the amount and the height of the chain when it was broadcast
Sent(via, to, amt) == [via |-> via, to |-> to, amount |-> amt, height |-> height]

\* listunspent: the lists the node may report, or a failure
UtxoLists == {<<>>,
              <<Utxo("u1", 1)>>,
              <<Utxo("u1", 10000), Utxo("u2", 1)>>,
              <<Utxo("u1", Btc(50))>>,
              <<Utxo("u1", Btc(50)), Utxo("u2", 10000)>>,
              [m \in 1..11 |-> Utxo("u", 10000)]}
UtxoResponses == {Result(NoErr, l) : l \in UtxoLists} \cup {Result(E_Rpc, <<>>)}

\* signrawtransactionwithwallet: `complete` true or false, or a failure
SignResponses == {Result(NoErr, TRUE), Result(NoErr, FALSE), Result(E_Rpc, FALSE)}

RECURSIVE SumAmounts(_)
\* reduce((sum, u) => sum + u.amount, 0)
SumAmounts(l) == IF l = <<>> THEN 0 ELSE Head(l).amount + SumAmounts(Tail(l))

\* createmultisig: the node rejects an empty public key, and may fail anyway
CreateMultisigResponses(n, keys) ==
    {Result(E_Rpc, NoMultisig)}
    \cup (IF \E m \in 1..Len(keys) : keys[m] = <<>> THEN {}
          ELSE {Result(NoErr, MultisigOf(n, keys))})

----------------------------------------------------------------------------
(* mine (src/index.ts 71-79) *)

EnterMine(w, blocks, ret, catch) ==
    /\ mwallet' = w
    /\ mblocks' = blocks
    /\ CallFn("mine_addr", ret, catch)

\* line 72: getnewaddress on the wallet; not in a try block
MineAddr ==
    /\ pc = "mine_addr"
    /\ \E r \in AddressResponses :
        /\ nextAddr' = AddrAfter(r)
        /\ IF r.err = NoErr THEN Goto("mine_gen") ELSE Throw(r.err)
    /\ UNCHANGED <<height, mineVars, unsynced, notMine>>

\* line 73-78: generatetoaddress on the base client, the settle delay, return
MineGenerate ==
    /\ pc = "mine_gen"
    /\ \E r \in PlainResponses :
        IF r.err = NoErr
        THEN /\ height' = height + mblocks
             /\ unsynced' = unsynced \cup {mwallet}
             /\ Return
        ELSE /\ UNCHANGED <<height, unsynced>>
             /\ Throw(r.err)
    /\ UNCHANGED <<nextAddr, mineVars, notMine>>

MineSteps == MineAddr \/ MineGenerate

----------------------------------------------------------------------------
(* syncWallet (src/index.ts 81-116) *)

\* line 88
maxAttempts == 20

LoopContinues_OffByOne(att) == att <= maxAttempts

\* line 90: while (attempts < maxAttempts)
LoopContinues(att) == att < maxAttempts

Converged_Indexed(bal) == bal > 0 /\ swallet \notin unsynced

\* line 93: if (balance > 0)
Converged(bal) == bal > 0

TimedOut_Early(att) == att >= maxAttempts - 1

\* line 107: if (attempts >= maxAttempts)
TimedOut(att) == att >= maxAttempts

EnterSync(w, ret, catch) ==
    /\ swallet' = w
    /\ polls' = 0
    /\ rescans' = 0
    /\ UNCHANGED <<attempts, currentHeight>>
    /\ CallFn("sync_info", ret, catch)

\* line 83-88: getblockchaininfo on the base client, outside any try block
SyncInfo ==
    /\ pc = "sync_info"
    /\ \E r \in PlainResponses :
        IF r.err = NoErr
        THEN /\ currentHeight' = height
             /\ attempts' = 0
             /\ Goto(IF LoopContinues(0) THEN "sync_poll" ELSE "sync_check")
        ELSE /\ UNCHANGED <<currentHeight, attempts>>
             /\ Throw(r.err)
    /\ UNCHANGED <<swallet, polls, rescans, unsynced, notSync>>

\* line 90-105: one iteration of the polling loop: getbalance, break on a
\* positive balance, otherwise (zero balance, or a caught failure) attempts++
SyncPoll ==
    /\ pc = "sync_poll"
    /\ \E r \in BalanceResponses :
        /\ polls' = polls + 1
        /\ IF r.err = NoErr /\ Converged(r.val)
           THEN /\ UNCHANGED attempts
                /\ Goto("sync_check")
           ELSE /\ attempts' = attempts + 1
                /\ Goto(IF LoopContinues(attempts + 1)
                        THEN "sync_poll" ELSE "sync_check")
    /\ UNCHANGED <<swallet, currentHeight, rescans, unsynced, notSync>>

\* line 107: rescan on timeout, return otherwise
SyncCheck ==
    /\ pc = "sync_check"
    /\ IF TimedOut(attempts)
       THEN Goto("sync_rescan")
       ELSE Goto("sync_ret")
    /\ UNCHANGED <<syncVars, unsynced, notSync>>

\* line 109-114: rescanblockchain; its failure is caught and logged
SyncRescan ==
    /\ pc = "sync_rescan"
    /\ \E r \in PlainResponses :
        /\ rescans' = rescans + 1
        /\ Goto("sync_ret")
    /\ UNCHANGED <<swallet, attempts, currentHeight, polls, unsynced, notSync>>

\* line 116: the function returns normally and its locals are gone
SyncRet ==
    /\ pc = "sync_ret"
    /\ Return
    /\ unsynced' = unsynced \ {swallet}
    /\ swallet' = "none"
    /\ attempts' = 0
    /\ currentHeight' = 0
    /\ polls' = 0
    /\ rescans' = 0
    /\ UNCHANGED notSync

SyncSteps == SyncInfo \/ SyncPoll \/ SyncCheck \/ SyncRescan \/ SyncRet

SyncLabels == {"sync_info", "sync_poll", "sync_check", "sync_rescan", "sync_ret"}

----------------------------------------------------------------------------
(* Strings the program takes apart are sequences of characters *)

Zero8 == <<"0", "0", "0", "0", "0", "0", "0", "0">>

HexChars == {"0", "1", "2", "3", "4", "5", "6", "7", "8", "9",
             "a", "b", "c", "d", "e", "f", "A", "B", "C", "D", "E", "F"}

\* s.slice(a, b) for 0 <= a <= b
Slice(s, a, b) == SubSeq(s, a + 1, IF b < Len(s) THEN b ELSE Len(s))

\* n.toString().padStart(8, '0') for a one-digit n
PadStart8(n) ==
    <<"0", "0", "0", "0", "0", "0", "0">>
    \o <<CASE n = 0 -> "0" [] n = 1 -> "1" [] n = 2 -> "2" [] OTHER -> "9">>

\* the literal "tpub661MyMwAqRbcF" of lines 212 and 217
XpubPrefix == <<"t", "p", "u", "b", "6", "6", "1", "M", "y", "M", "w", "A",
                "q", "R", "b", "c", "F">>

\* the public key getaddressinfo reports for an address of wallet w
PubkeyOf(w) ==
    IF w \in {SignerName(x, 0) : x \in {"waste_heavy", "privacy_good", "privacy_bad"}}
    THEN <<"0", "2", "a", "1", "c", "3">>
    ELSE <<"0", "3", "b", "2", "d", "4">>

\* the hdseedid getwalletinfo reports (40 hex characters in the node)
HdSeedId == <<"9", "f", "8", "e", "7", "d", "6", "c", "5", "b", "4", "a">>

\* A descriptor: its script function, the fingerprint of the key origin
\* (<<>> when the key has no [fingerprint/path] origin), the key and the
\* derivation suffix.
Desc(fn, fp, key, chain) == [fn |-> fn, fp |-> fp, key |-> key, chain |-> chain]

DescWpkhRecv == Desc("wpkh", <<"a", "a", "b", "b", "c", "c", "d", "d">>,
                     <<"t", "p", "u", "b", "D", "6", "N">>, "/0/*")
DescWpkhChange == Desc("wpkh", <<"a", "a", "b", "b", "c", "c", "d", "d">>,
                       <<"t", "p", "u", "b", "D", "6", "N">>, "/1/*")
DescPkhRecv == Desc("pkh", <<"1", "1", "2", "2", "3", "3", "4", "4">>,
                    <<"t", "p", "u", "b", "D", "7", "P">>, "/0/*")
\* a descriptor of a bare public key: wpkh(02...)
DescBareKey == Desc("wpkh", <<>>, <<"0", "2", "a", "1", "c", "3">>, "")

\* listdescriptors: the descriptor lists the node may report, or a failure
DescriptorLists == {<<>>,
                    <<DescPkhRecv, DescWpkhChange, DescWpkhRecv>>,
                    <<DescPkhRecv, DescWpkhChange>>,
                    <<DescBareKey>>}
DescriptorResponses ==
    {Result(NoErr, ds) : ds \in DescriptorLists} \cup {Result(E_Rpc, <<>>)}

\* getwalletinfo: with an hdseedid, without one, or a failure
WalletInfoResponses ==
    {Result(NoErr, HdSeedId), Result(NoErr, <<>>), Result(E_Rpc, <<>>)}

----------------------------------------------------------------------------
(* createTwoSignerWallets (src/index.ts 119-238) *)

\* line 128: for (let i = 0; i < 2; i++)
NumSigners == 2

\* line 140: if (currentBalance < 50)
FundThreshold == 50

\* lines 179-181: the first descriptor with "wpkh" and "/0/*", else the first
ReceivingDesc(ds) ==
    LET hits == {k \in 1..Len(ds) : ds[k].fn = "wpkh" /\ ds[k].chain = "/0/*"}
    IN IF hits = {} THEN ds[1]
       ELSE ds[CHOOSE k \in hits : \A m \in hits : k <= m]

\* line 186: /\[([a-fA-F0-9]{8})\/[^\]]+\]([xtpub][a-zA-Z0-9]+)/ matches
XpubMatch(d) ==
    /\ Len(d.fp) = 8
    /\ \A k \in 1..Len(d.fp) : d.fp[k] \in HexChars
    /\ Len(d.key) >= 2
    /\ d.key[1] \in {"x", "t", "p", "u", "b"}

\* lines 212, 217: `tpub661MyMwAqRbcF${pubkey.slice(2, 72)}${i padded to 8}`
PlaceholderXpub(pk, idx) == XpubPrefix \o Slice(pk, 2, 72) \o PadStart8(idx)

Signer(w, pk, xp, fp, name) ==
    [wallet |-> w, pubkey |-> pk, xpub |-> xp, xfp |-> fp, name |-> name]

EnterSigners(scenario, ret, catch) ==
    /\ scn' = scenario
    /\ signers' = <<>>
    /\ i' = 0
    /\ UNCHANGED <<wallet, currentBalance, xpub, xfp, pubkey>>
    /\ CallFn("cts_loop", ret, catch)

\* lines 128-133 and 237: next signer slot, or return the signers
CtsLoop ==
    /\ pc = "cts_loop"
    /\ IF i < NumSigners
       THEN EnterAcquire(SignerName(scn, i), "cts_bal", "none")
       ELSE Return /\ UNCHANGED acqVars
    /\ UNCHANGED <<nodeVars, drvVars, mineVars, syncVars, unsynced, progVars>>

\* lines 133-140: bind the wallet, getbalance, decide whether to fund
CtsBal ==
    /\ pc = "cts_bal"
    /\ wallet' = handle
    /\ \E r \in BalanceResponses :
        IF r.err = NoErr
        THEN /\ currentBalance' = r.val
             /\ Goto(IF r.val < Btc(FundThreshold) THEN "cts_mine1" ELSE "cts_desc")
        ELSE /\ UNCHANGED currentBalance
             /\ Throw(r.err)
    /\ AcqTaken
    /\ UNCHANGED <<scn, i, signers, xpub, xfp, pubkey, smVars, whVars,
                   tmsVars, runVars, pvVars>>
    /\ UNCHANGED <<nodeVars, drvVars, mineVars, syncVars, unsynced>>

\* line 142: mine(wallet, 101)
CtsMine1 ==
    /\ pc = "cts_mine1"
    /\ EnterMine(wallet, 101, "cts_sync1", "none")
    /\ UNCHANGED <<nodeVars, acqVars, drvVars, syncVars, unsynced, progVars>>

\* line 143: syncWallet(wallet)
CtsSync1 ==
    /\ pc = "cts_sync1"
    /\ EnterSync(wallet, "cts_bal2", "none")
    /\ UNCHANGED <<nodeVars, acqVars, drvVars, mineVars, unsynced, progVars>>

\* lines 146-150: getbalance again; a second round only if it is exactly 0
CtsBal2 ==
    /\ pc = "cts_bal2"
    /\ \E r \in BalanceResponses :
        IF r.err = NoErr
        THEN /\ currentBalance' = r.val
             /\ Goto(IF r.val = 0 THEN "cts_mine2" ELSE "cts_desc")
        ELSE /\ UNCHANGED currentBalance
             /\ Throw(r.err)
    /\ UNCHANGED <<scn, i, signers, wallet, xpub, xfp, pubkey, smVars, whVars,
                   tmsVars, runVars, pvVars>>
    /\ UNCHANGED <<nodeVars, acqVars, drvVars, mineVars, syncVars, unsynced>>

\* lines 153-154: mine(wallet, 50)
CtsMine2 ==
    /\ pc = "cts_mine2"
    /\ EnterMine(wallet, 50, "cts_rescan", "none")
    /\ UNCHANGED <<nodeVars, acqVars, drvVars, syncVars, unsynced, progVars>>

\* lines 157-162: rescanblockchain; its failure is caught and logged
CtsRescan ==
    /\ pc = "cts_rescan"
    /\ \E r \in PlainResponses :
        IF r.err = NoErr
        THEN Goto("cts_bal3") /\ unsynced' = unsynced \ {wallet}
        ELSE Catch(r.err, "cts_bal3") /\ UNCHANGED unsynced
    /\ UNCHANGED <<nodeVars, acqVars, drvVars, mineVars, syncVars, progVars>>

\* line 164: the final getbalance of the funding phase
CtsBal3 ==
    /\ pc = "cts_bal3"
    /\ \E r \in BalanceResponses :
        IF r.err = NoErr
        THEN currentBalance' = r.val /\ Goto("cts_desc")
        ELSE UNCHANGED currentBalance /\ Throw(r.err)
    /\ UNCHANGED <<scn, i, signers, wallet, xpub, xfp, pubkey, smVars, whVars,
                   tmsVars, runVars, pvVars>>
    /\ UNCHANGED <<nodeVars, acqVars, drvVars, mineVars, syncVars, unsynced>>

\* lines 170-193: the defaults, listdescriptors and the descriptor parse
CtsDesc ==
    /\ pc = "cts_desc"
    /\ pubkey' = <<>>
    /\ \E r \in DescriptorResponses :
        IF r.err # NoErr
        THEN /\ xpub' = <<>> /\ xfp' = Zero8
             /\ Catch(r.err, "cts_fb_addr")
        ELSE IF Len(r.val) > 0
        THEN /\ IF XpubMatch(ReceivingDesc(r.val))
                THEN /\ xfp' = ReceivingDesc(r.val).fp
                     /\ xpub' = ReceivingDesc(r.val).key
                ELSE xpub' = <<>> /\ xfp' = Zero8
             /\ Goto("cts_addr")
        ELSE /\ xpub' = <<>> /\ xfp' = Zero8
             /\ Goto("cts_push")
    /\ UNCHANGED <<scn, i, signers, wallet, currentBalance, smVars, whVars,
                   tmsVars, runVars, pvVars>>
    /\ UNCHANGED <<nodeVars, acqVars, drvVars, mineVars, syncVars, unsynced>>

\* line 195: getnewaddress("", "bech32") inside the try block
CtsAddr ==
    /\ pc = "cts_addr"
    /\ \E r \in AddressResponses :
        /\ nextAddr' = AddrAfter(r)
        /\ IF r.err = NoErr THEN Goto("cts_info")
           ELSE Catch(r.err, "cts_fb_addr")
    /\ UNCHANGED <<wstate, height, acqVars, drvVars, mineVars, syncVars,
                   unsynced, progVars>>

\* lines 196-197: getaddressinfo inside the try block
CtsInfo ==
    /\ pc = "cts_info"
    /\ \E r \in PlainResponses :
        IF r.err = NoErr
        THEN pubkey' = PubkeyOf(wallet) /\ Goto("cts_push")
        ELSE UNCHANGED pubkey /\ Catch(r.err, "cts_fb_addr")
    /\ UNCHANGED <<scn, i, signers, wallet, currentBalance, xpub, xfp, smVars,
                   whVars, tmsVars, runVars, pvVars>>
    /\ UNCHANGED <<nodeVars, acqVars, drvVars, mineVars, syncVars, unsynced>>

\* line 203: getnewaddress in the catch block
CtsFbAddr ==
    /\ pc = "cts_fb_addr"
    /\ \E r \in AddressResponses :
        /\ nextAddr' = AddrAfter(r)
        /\ IF r.err = NoErr THEN Goto("cts_fb_info") ELSE Throw(r.err)
    /\ UNCHANGED <<wstate, height, acqVars, drvVars, mineVars, syncVars,
                   unsynced, progVars>>

\* lines 204-205: getaddressinfo in the catch block
CtsFbInfo ==
    /\ pc = "cts_fb_info"
    /\ \E r \in PlainResponses :
        IF r.err = NoErr
        THEN pubkey' = PubkeyOf(wallet) /\ Goto("cts_fb_winfo")
        ELSE UNCHANGED pubkey /\ Throw(r.err)
    /\ UNCHANGED <<scn, i, signers, wallet, currentBalance, xpub, xfp, smVars,
                   whVars, tmsVars, runVars, pvVars>>
    /\ UNCHANGED <<nodeVars, acqVars, drvVars, mineVars, syncVars, unsynced>>

\* lines 208-219: getwalletinfo; placeholders from hdseedid or from the index
CtsFbWinfo ==
    /\ pc = "cts_fb_winfo"
    /\ \E r \in WalletInfoResponses :
        IF r.err = NoErr
        THEN /\ IF Len(r.val) > 0
                THEN /\ xpub' = PlaceholderXpub(pubkey, i)
                     /\ xfp' = Slice(r.val, 0, 8)
                ELSE UNCHANGED <<xpub, xfp>>
             /\ Goto("cts_push")
        ELSE /\ xpub' = PlaceholderXpub(pubkey, i)
             /\ xfp' = PadStart8(i + 1)
             /\ Catch(r.err, "cts_push")
    /\ UNCHANGED <<scn, i, signers, wallet, currentBalance, pubkey, smVars, whVars,
                   tmsVars, runVars, pvVars>>
    /\ UNCHANGED <<nodeVars, acqVars, drvVars, mineVars, syncVars, unsynced>>

\* lines 222-235 and the i++ of line 128; the block-scoped variables of the
\* iteration (wallet, currentBalance, xpub, xfp, pubkey) end with it
CtsPush ==
    /\ pc = "cts_push"
    /\ signers' = Append(signers, Signer(wallet, pubkey, xpub, xfp, SignerName(scn, i)))
    /\ i' = i + 1
    /\ wallet' = "none"
    /\ currentBalance' = 0
    /\ xpub' = <<>>
    /\ xfp' = <<>>
    /\ pubkey' = <<>>
    /\ Goto("cts_loop")
    /\ UNCHANGED <<scn, smVars, whVars, tmsVars, runVars, pvVars>>
    /\ UNCHANGED <<nodeVars, acqVars, drvVars, mineVars, syncVars, unsynced>>

SignersSteps ==
    \/ CtsLoop \/ CtsBal \/ CtsMine1 \/ CtsSync1 \/ CtsBal2 \/ CtsMine2
    \/ CtsRescan \/ CtsBal3 \/ CtsDesc \/ CtsAddr \/ CtsInfo \/ CtsFbAddr
    \/ CtsFbInfo \/ CtsFbWinfo \/ CtsPush

----------------------------------------------------------------------------
(* setupMultisigWithTwoWallets (src/index.ts 241-310) *)

\* line 259: if (balance < 15)
SpendThreshold == 15

\* line 273: if (balance < 10)
RecheckThreshold == 10

\* line 288: sendtoaddress(multisigAddress, 10)
FundingAmount == 10

PickCoordinator_Current(p, c) == IF p.wallet = c.wallet THEN p ELSE c

\* line 249: the callback of the reduce
PickCoordinator(p, c) == IF p.wallet = c.wallet THEN p ELSE p

RECURSIVE Reduce(_, _, _)
\* Array.prototype.reduce without an initial value, from position k on
Reduce(acc, sg, k) ==
    IF k > Len(sg) THEN acc ELSE Reduce(PickCoordinator(acc, sg[k]), sg, k + 1)

\* lines 248-250
Coordinator(sg) == Reduce(sg[1], sg, 2).wallet

Pubkeys_Reversed(sg) == [m \in 1..Len(sg) |-> sg[Len(sg) + 1 - m].pubkey]

\* line 252: signers.map(s => s.pubkey)
Pubkeys(sg) == [m \in 1..Len(sg) |-> sg[m].pubkey]

\* line 274: the error carries the observed balance
E_Insufficient(b) ==
    [code |-> 0, msg |-> <<"Insufficient", "funds", "in", "coordinator",
                           "wallet", ToString(b)>>]

EnterSetup(scenario, ret, catch) ==
    /\ scn' = scenario
    /\ CallFn("sm_signers", ret, catch)

\* line 245
SmSigners ==
    /\ pc = "sm_signers"
    /\ EnterSigners(scn, "sm_coord", "none")
    /\ UNCHANGED <<nodeVars, acqVars, drvVars, mineVars, syncVars, unsynced,
                   smVars, whVars, tmsVars, runVars, pvVars>>

\* lines 248-252: the coordinator and the ordered public keys
SmCoord ==
    /\ pc = "sm_coord"
    /\ coordinatorWallet' = Coordinator(signers)
    /\ Goto("sm_bal")
    /\ UNCHANGED <<balance, j, multisig, fundingTxid, ctsVars, whVars, tmsVars,
                   runVars, pvVars>>
    /\ UNCHANGED <<nodeVars, acqVars, drvVars, mineVars, syncVars, unsynced>>

\* lines 255-259: the first balance check
SmBal ==
    /\ pc = "sm_bal"
    /\ \E r \in BalanceResponses :
        IF r.err = NoErr
        THEN /\ balance' = r.val
             /\ j' = 1
             /\ Goto(IF r.val < Btc(SpendThreshold)
                     THEN "sm_fund_loop" ELSE "sm_multisig")
        ELSE /\ UNCHANGED <<balance, j>>
             /\ Throw(r.err)
    /\ UNCHANGED <<coordinatorWallet, multisig, fundingTxid, ctsVars, whVars,
                   tmsVars, runVars, pvVars>>
    /\ UNCHANGED <<nodeVars, acqVars, drvVars, mineVars, syncVars, unsynced>>

\* lines 263-264: mine 75 blocks to the next signer, or leave the loop
SmFundLoop ==
    /\ pc = "sm_fund_loop"
    /\ IF j <= Len(signers)
       THEN EnterMine(signers[j].wallet, 75, "sm_fund_sync", "none")
       ELSE Goto("sm_bal2") /\ UNCHANGED mineVars
    /\ UNCHANGED <<nodeVars, acqVars, drvVars, syncVars, unsynced, progVars>>

\* line 265: synchronize that signer's wallet
SmFundSync ==
    /\ pc = "sm_fund_sync"
    /\ EnterSync(signers[j].wallet, "sm_fund_loop", "none")
    /\ j' = j + 1
    /\ UNCHANGED <<balance, coordinatorWallet, multisig, fundingTxid, ctsVars,
                   whVars, tmsVars, runVars, pvVars>>
    /\ UNCHANGED <<nodeVars, acqVars, drvVars, mineVars, unsynced>>

\* lines 269-275: the re-check
SmBal2 ==
    /\ pc = "sm_bal2"
    /\ \E r \in BalanceResponses :
        IF r.err = NoErr
        THEN /\ balance' = r.val
             /\ IF r.val < Btc(RecheckThreshold)
                THEN Throw(E_Insufficient(r.val))
                ELSE Goto("sm_multisig")
        ELSE /\ UNCHANGED balance
             /\ Throw(r.err)
    /\ UNCHANGED <<j, coordinatorWallet, multisig, fundingTxid, ctsVars, whVars,
                   tmsVars, runVars, pvVars>>
    /\ UNCHANGED <<nodeVars, acqVars, drvVars, mineVars, syncVars, unsynced>>

\* line 288: the transaction sendtoaddress(multisig.address, 10) on the
\* coordinator's client broadcasts; fundingTxid identifies it
FundingTx(from, ms) == [from |-> from, to |-> ms.address, amount |-> Btc(FundingAmount)]

NoTx == [from |-> "none", to |-> NoMultisig.address, amount |-> 0]

SignersLeft_SkipLast(ix, sg) == ix < Len(sg)

\* line 295: for (const signer of signers)
SignersLeft(ix, sg) == ix <= Len(sg)

\* lines 279-281: createmultisig(2, pubkeys)
SmMultisig ==
    /\ pc = "sm_multisig"
    /\ \E r \in CreateMultisigResponses(2, Pubkeys(signers)) :
        IF r.err = NoErr
        THEN multisig' = r.val /\ Goto("sm_send")
        ELSE UNCHANGED multisig /\ Throw(r.err)
    /\ UNCHANGED <<balance, j, coordinatorWallet, fundingTxid, ctsVars, whVars,
                   tmsVars, runVars, pvVars>>
    /\ UNCHANGED <<nodeVars, acqVars, drvVars, mineVars, syncVars, unsynced>>

\* line 288: the funding send from the coordinator
SmSend ==
    /\ pc = "sm_send"
    /\ \E r \in PlainResponses :
        IF r.err = NoErr
        THEN /\ fundingTxid' = FundingTx(coordinatorWallet, multisig)
             /\ Goto("sm_mine")
        ELSE UNCHANGED fundingTxid /\ Throw(r.err)
    /\ UNCHANGED <<balance, j, coordinatorWallet, multisig, ctsVars, whVars,
                   tmsVars, runVars, pvVars>>
    /\ UNCHANGED <<nodeVars, acqVars, drvVars, mineVars, syncVars, unsynced>>

\* line 291: mine(coordinatorWallet, 1)
SmMine ==
    /\ pc = "sm_mine"
    /\ EnterMine(coordinatorWallet, 1, "sm_sync_loop", "none")
    /\ j' = 1
    /\ UNCHANGED <<balance, coordinatorWallet, multisig, fundingTxid, ctsVars,
                   whVars, tmsVars, runVars, pvVars>>
    /\ UNCHANGED <<nodeVars, acqVars, drvVars, syncVars, unsynced>>

\* lines 295-309: synchronize every signer's wallet, then return the address,
\* the signers and the coordinator; the other locals end with the call
SmSyncLoop ==
    /\ pc = "sm_sync_loop"
    /\ IF SignersLeft(j, signers)
       THEN /\ EnterSync(signers[j].wallet, "sm_sync_loop", "none")
            /\ j' = j + 1
            /\ UNCHANGED <<balance, fundingTxid>>
       ELSE /\ Return
            /\ j' = 0
            /\ balance' = 0
            /\ fundingTxid' = NoTx
            /\ UNCHANGED syncVars
    /\ UNCHANGED <<coordinatorWallet, multisig, ctsVars,
                   whVars, tmsVars, runVars, pvVars>>
    /\ UNCHANGED <<nodeVars, acqVars, drvVars, mineVars, unsynced>>

SetupSteps ==
    \/ SmSigners \/ SmCoord \/ SmBal \/ SmFundLoop \/ SmFundSync \/ SmBal2
    \/ SmMultisig \/ SmSend \/ SmMine \/ SmSyncLoop

----------------------------------------------------------------------------
(* saveCaravanConfig (src/index.ts 312-341) *)

\* lines 313-329
CaravanConfig(name, sg) ==
    [name |-> name \o " Multisig (2-of-2)",
     addressType |-> "P2WSH",
     network |-> "regtest",
     quorum |-> [requiredSigners |-> 2, totalSigners |-> 2],
     extendedPublicKeys |->
        [m \in 1..Len(sg) |-> [name |-> sg[m].name, xpub |-> sg[m].xpub,
                               bip32Path |-> "m/84'/0'/0'", xfp |-> sg[m].xfp,
                               method |-> "text"]],
     startingAddressIndex |-> 0]

\* line 331
ConfigPath(name) == name \o "_caravan.json"

\* line 332: writeFileSync creates or overwrites the file
WriteFile(files, path, content) ==
    [f \in DOMAIN files \cup {path} |-> IF f = path THEN content ELSE files[f]]

----------------------------------------------------------------------------
(* wasteHeavy (src/index.ts 344-512) *)

\* line 355
DustCount == 20
\* line 357: 0.00001
DustAmount == 1
\* line 367
SmallCount == 15
\* line 375
OddCount == 8
\* line 386: u.amount < 0.5
SmallLimit == 50000
\* line 386: slice(0, 10)
ConsMaxInputs == 10
\* line 391: the fee 0.01
ConsFee == 1000
\* line 408
OpReturnCount == 5
\* line 414: input.amount > 0.01
OpMinInput == 1000
\* line 418: input.amount - 0.002
OpFee == 200
\* line 420: outputAmount > 0.001
OpMinOutput == 100
\* line 456
BumpCount == 3
\* lines 473-484: three chained sends
ChainCount == 3

ChainAmount_Flat(ix) == Btc(1)

\* lines 478, 481, 484: the amounts of the parent, child and grandchild sends
ChainAmount(ix) ==
    CASE ix = 0 -> Btc(2)
      [] ix = 1 -> Btc(1)
      [] OTHER -> Btc(1) \div 2

\* line 458: fee_rate: 10 + (i * 5)
FeeRate(ix) == 10 + (ix * 5)

TxidAfterBump_Always(old, r) == r.val

\* lines 458-463: txid is replaced only when bumpfee returned
TxidAfterBump(old, r) == IF r.err = NoErr THEN r.val ELSE old

\* bumpfee of attempt ix: the replacement's txid, or a failure
BumpResponses(ix) ==
    {Result(NoErr, CASE ix = 0 -> "bump1" [] ix = 1 -> "bump2" [] OTHER -> "bump3"),
     Result(E_Rpc, "none")}

notWh == <<acqVars, drvVars, mineVars, syncVars, ctsVars, smVars, tmsVars, runVars, pvVars>>
whRest == <<drvVars, mineVars, syncVars, ctsVars, smVars, tmsVars, runVars, pvVars>>

\* line 348
WhStart ==
    /\ pc = "wh_start"
    /\ EnterSetup("waste_heavy", "wh_dust_init", "none")
    /\ UNCHANGED <<nodeVars, acqVars, drvVars, mineVars, syncVars, unsynced>>
    /\ UNCHANGED <<i, signers, wallet, currentBalance, xpub, xfp, pubkey, smVars,
                   whVars, tmsVars, runVars, pvVars>>

DustLoopContinues_OffByOne(ix) == ix <= DustCount

\* line 355: i < 20
DustLoopContinues(ix) == ix < DustCount

\* line 354: const dustOutputs = {}
WhDustInit ==
    /\ pc = "wh_dust_init"
    /\ dustOutputs' = <<>>
    /\ loopIx' = 0
    /\ Goto("wh_dust_addr")
    /\ UNCHANGED <<utxos, amount, txid, bumps, nodeVars, unsynced, notWh>>

\* lines 355-358: one address and one map entry per iteration
WhDustAddr ==
    /\ pc = "wh_dust_addr"
    /\ \E r \in AddressResponses :
        /\ nextAddr' = AddrAfter(r)
        /\ IF r.err = NoErr
           THEN /\ dustOutputs' = WriteFile(dustOutputs, r.val, DustAmount)
                /\ loopIx' = loopIx + 1
                /\ Goto(IF DustLoopContinues(loopIx + 1) THEN "wh_dust_addr"
                        ELSE "wh_dust_send")
           ELSE /\ UNCHANGED <<dustOutputs, loopIx>>
                /\ Throw(r.err)
    /\ UNCHANGED <<utxos, amount, txid, bumps, wstate, height, unsynced, notWh>>

\* line 361: sendmany("", dustOutputs), in no try block
WhDustSend ==
    /\ pc = "wh_dust_send"
    /\ \E r \in PlainResponses :
        IF r.err = NoErr THEN Goto("wh_dust_mine") ELSE Throw(r.err)
    /\ UNCHANGED <<whVars, nodeVars, unsynced, notWh>>

\* line 363
WhDustMine ==
    /\ pc = "wh_dust_mine"
    /\ EnterMine(coordinatorWallet, 1, "wh_small_addr", "none")
    /\ loopIx' = 0
    /\ UNCHANGED <<dustOutputs, utxos, amount, txid, bumps, nodeVars, unsynced>>
    /\ UNCHANGED <<acqVars, drvVars, syncVars, ctsVars, smVars, tmsVars, runVars, pvVars>>

\* line 368
WhSmallAddr ==
    /\ pc = "wh_small_addr"
    /\ \E r \in AddressResponses :
        /\ nextAddr' = AddrAfter(r)
        /\ IF r.err = NoErr THEN Goto("wh_small_send") ELSE Throw(r.err)
    /\ UNCHANGED <<whVars, wstate, height, unsynced, notWh>>

\* line 369: sendtoaddress(smallAddr, 0.1), in no try block
WhSmallSend ==
    /\ pc = "wh_small_send"
    /\ \E r \in PlainResponses :
        IF r.err = NoErr
        THEN /\ loopIx' = loopIx + 1
             /\ Goto(IF loopIx + 1 < SmallCount THEN "wh_small_addr"
                     ELSE "wh_small_mine")
        ELSE UNCHANGED loopIx /\ Throw(r.err)
    /\ UNCHANGED <<dustOutputs, utxos, amount, txid, bumps, nodeVars, unsynced,
                   notWh>>

\* line 371
WhSmallMine ==
    /\ pc = "wh_small_mine"
    /\ EnterMine(coordinatorWallet, 1, "wh_odd_addr", "none")
    /\ loopIx' = 0
    /\ UNCHANGED <<dustOutputs, utxos, amount, txid, bumps, nodeVars, unsynced>>
    /\ UNCHANGED <<acqVars, drvVars, syncVars, ctsVars, smVars, tmsVars, runVars, pvVars>>

\* line 377
WhOddAddr ==
    /\ pc = "wh_odd_addr"
    /\ \E r \in AddressResponses :
        /\ nextAddr' = AddrAfter(r)
        /\ IF r.err = NoErr THEN Goto("wh_odd_send") ELSE Throw(r.err)
    /\ UNCHANGED <<whVars, wstate, height, unsynced, notWh>>

\* lines 378-379: sendtoaddress(weirdAddr, 0.12345678), in no try block
WhOddSend ==
    /\ pc = "wh_odd_send"
    /\ \E r \in PlainResponses :
        IF r.err = NoErr
        THEN /\ loopIx' = loopIx + 1
             /\ Goto(IF loopIx + 1 < OddCount THEN "wh_odd_addr"
                     ELSE "wh_odd_mine")
        ELSE UNCHANGED loopIx /\ Throw(r.err)
    /\ UNCHANGED <<dustOutputs, utxos, amount, txid, bumps, nodeVars, unsynced,
                   notWh>>

\* line 381
WhOddMine ==
    /\ pc = "wh_odd_mine"
    /\ EnterMine(coordinatorWallet, 1, "wh_cons_list", "none")
    /\ UNCHANGED <<whVars, nodeVars, unsynced>>
    /\ UNCHANGED <<acqVars, drvVars, syncVars, ctsVars, smVars, tmsVars, runVars, pvVars>>

\* line 386: filter(u => u.amount < 0.5).slice(0, 10)
SmallUtxos(l) ==
    Slice(SelectSeq(l, LAMBDA u : u.amount < SmallLimit), 0, ConsMaxInputs)

\* lines 385-391: listunspent(1), the small outputs and the output amount
WhConsList ==
    /\ pc = "wh_cons_list"
    /\ \E r \in UtxoResponses :
        IF r.err = NoErr
        THEN /\ utxos' = SmallUtxos(r.val)
             /\ IF Len(SmallUtxos(r.val)) > 0
                THEN /\ amount' = SumAmounts(SmallUtxos(r.val)) - ConsFee
                     /\ Goto("wh_cons_addr")
                ELSE /\ UNCHANGED amount
                     /\ Goto("wh_cons_mine")
        ELSE /\ UNCHANGED <<utxos, amount>>
             /\ Throw(r.err)
    /\ UNCHANGED <<loopIx, dustOutputs, txid, bumps, nodeVars, unsynced, notWh>>

\* lines 393-395: the consolidation address, in no try block
WhConsAddr ==
    /\ pc = "wh_cons_addr"
    /\ \E r \in AddressResponses :
        /\ nextAddr' = AddrAfter(r)
        /\ IF r.err = NoErr
           THEN Goto(IF amount > 0 THEN "wh_cons_create" ELSE "wh_cons_mine")
           ELSE Throw(r.err)
    /\ UNCHANGED <<whVars, wstate, height, unsynced, notWh>>

\* line 396: createrawtransaction
WhConsCreate ==
    /\ pc = "wh_cons_create"
    /\ \E r \in PlainResponses :
        IF r.err = NoErr THEN Goto("wh_cons_sign") ELSE Throw(r.err)
    /\ UNCHANGED <<whVars, nodeVars, unsynced, notWh>>

\* line 397: signrawtransactionwithwallet; `complete` is not looked at
WhConsSign ==
    /\ pc = "wh_cons_sign"
    /\ \E r \in SignResponses :
        IF r.err = NoErr THEN Goto("wh_cons_send") ELSE Throw(r.err)
    /\ UNCHANGED <<whVars, nodeVars, unsynced, notWh>>

\* line 398: sendrawtransaction
WhConsSend ==
    /\ pc = "wh_cons_send"
    /\ \E r \in PlainResponses :
        IF r.err = NoErr THEN Goto("wh_cons_mine") ELSE Throw(r.err)
    /\ UNCHANGED <<whVars, nodeVars, unsynced, notWh>>

\* line 402
WhConsMine ==
    /\ pc = "wh_cons_mine"
    /\ EnterMine(coordinatorWallet, 1, "wh_op_addr", "none")
    /\ loopIx' = 0
    /\ UNCHANGED <<dustOutputs, utxos, amount, txid, bumps, nodeVars, unsynced>>
    /\ UNCHANGED <<acqVars, drvVars, syncVars, ctsVars, smVars, tmsVars, runVars, pvVars>>

\* the label after iteration ix of the OP_RETURN loop (line 408)
OpNext(ix) == IF ix + 1 < OpReturnCount THEN "wh_op_addr" ELSE "wh_op_mine"

\* line 409: getnewaddress, outside the try block
WhOpAddr ==
    /\ pc = "wh_op_addr"
    /\ \E r \in AddressResponses :
        /\ nextAddr' = AddrAfter(r)
        /\ IF r.err = NoErr THEN Goto("wh_op_list") ELSE Throw(r.err)
    /\ UNCHANGED <<whVars, wstate, height, unsynced, notWh>>

\* lines 413-420 and 440-445: listunspent(1), outside the try block, the
\* suitable inputs and the output amount
WhOpList ==
    /\ pc = "wh_op_list"
    /\ \E r \in UtxoResponses :
        IF r.err = NoErr
        THEN LET suitable == SelectSeq(r.val, LAMBDA u : u.amount > OpMinInput)
             IN /\ utxos' = suitable
                /\ IF Len(suitable) > 0
                   THEN /\ amount' = suitable[1].amount - OpFee
                        /\ IF suitable[1].amount - OpFee > OpMinOutput
                           THEN Goto("wh_op_create") /\ UNCHANGED loopIx
                           ELSE Goto(OpNext(loopIx)) /\ loopIx' = loopIx + 1
                   ELSE /\ UNCHANGED amount
                        /\ Goto(OpNext(loopIx)) /\ loopIx' = loopIx + 1
        ELSE /\ UNCHANGED <<utxos, amount, loopIx>>
             /\ Throw(r.err)
    /\ UNCHANGED <<dustOutputs, txid, bumps, nodeVars, unsynced, notWh>>

\* lines 422-428: createrawtransaction with the data output, in the try block
WhOpCreate ==
    /\ pc = "wh_op_create"
    /\ \E r \in PlainResponses :
        IF r.err = NoErr
        THEN Goto("wh_op_sign") /\ UNCHANGED loopIx
        ELSE Catch(r.err, OpNext(loopIx)) /\ loopIx' = loopIx + 1
    /\ UNCHANGED <<dustOutputs, utxos, amount, txid, bumps, nodeVars, unsynced,
                   notWh>>

\* lines 429-436: sign; broadcast only when complete
WhOpSign ==
    /\ pc = "wh_op_sign"
    /\ \E r \in SignResponses :
        IF r.err = NoErr
        THEN IF r.val
             THEN Goto("wh_op_send") /\ UNCHANGED loopIx
             ELSE Goto(OpNext(loopIx)) /\ loopIx' = loopIx + 1
        ELSE Catch(r.err, OpNext(loopIx)) /\ loopIx' = loopIx + 1
    /\ UNCHANGED <<dustOutputs, utxos, amount, txid, bumps, nodeVars, unsynced,
                   notWh>>

\* line 432: sendrawtransaction, in the try block
WhOpSend ==
    /\ pc = "wh_op_send"
    /\ \E r \in PlainResponses :
        /\ loopIx' = loopIx + 1
        /\ IF r.err = NoErr THEN Goto(OpNext(loopIx))
           ELSE Catch(r.err, OpNext(loopIx))
    /\ UNCHANGED <<dustOutputs, utxos, amount, txid, bumps, nodeVars, unsynced,
                   notWh>>

\* line 447; the variables of the loop body ended with the loop
WhOpMine ==
    /\ pc = "wh_op_mine"
    /\ EnterMine(coordinatorWallet, 1, "wh_rbf_addr", "none")
    /\ utxos' = <<>>
    /\ amount' = 0
    /\ loopIx' = 0
    /\ UNCHANGED <<dustOutputs, txid, bumps, nodeVars, unsynced>>
    /\ UNCHANGED <<acqVars, drvVars, syncVars, ctsVars, smVars, tmsVars, runVars, pvVars>>

\* line 452: getnewaddress, in the try block of step 6
WhRbfAddr ==
    /\ pc = "wh_rbf_addr"
    /\ \E r \in AddressResponses :
        /\ nextAddr' = AddrAfter(r)
        /\ IF r.err = NoErr THEN Goto("wh_rbf_send")
           ELSE Catch(r.err, "wh_rbf_mine")
    /\ UNCHANGED <<whVars, wstate, height, unsynced, notWh>>

\* lines 453-456: the replaceable send of 1.0
WhRbfSend ==
    /\ pc = "wh_rbf_send"
    /\ bumps' = <<>>
    /\ \E r \in PlainResponses :
        IF r.err = NoErr
        THEN /\ txid' = "rbf"
             /\ loopIx' = 0
             /\ Goto(IF 0 < BumpCount THEN "wh_bump" ELSE "wh_rbf_mine")
        ELSE /\ UNCHANGED <<txid, loopIx>>
             /\ Catch(r.err, "wh_rbf_mine")
    /\ UNCHANGED <<dustOutputs, utxos, amount, nodeVars, unsynced, notWh>>

\* lines 456-464: one fee bump; its failure is caught by the inner try
WhBump ==
    /\ pc = "wh_bump"
    /\ \E r \in BumpResponses(loopIx) :
        /\ bumps' = Append(bumps, [target |-> txid, rate |-> FeeRate(loopIx),
                                   err |-> r.err, txid |-> r.val])
        /\ txid' = TxidAfterBump(txid, r)
        /\ loopIx' = loopIx + 1
        /\ IF r.err = NoErr
           THEN Goto(IF loopIx + 1 < BumpCount THEN "wh_bump" ELSE "wh_rbf_mine")
           ELSE Catch(r.err, IF loopIx + 1 < BumpCount THEN "wh_bump"
                             ELSE "wh_rbf_mine")
    /\ UNCHANGED <<dustOutputs, utxos, amount, nodeVars, unsynced, notWh>>

\* line 468; `txid`, scoped to the try block of step 6, ended with it
WhRbfMine ==
    /\ pc = "wh_rbf_mine"
    /\ EnterMine(coordinatorWallet, 1, "wh_chain_addr", "none")
    /\ loopIx' = 0
    /\ txid' = "none"
    /\ bumps' = <<>>
    /\ UNCHANGED <<dustOutputs, utxos, amount, nodeVars, unsynced>>
    /\ UNCHANGED <<acqVars, drvVars, syncVars, ctsVars, smVars, tmsVars, runVars, pvVars>>

\* lines 473-475: the three chain addresses, in the try block of step 7
WhChainAddr ==
    /\ pc = "wh_chain_addr"
    /\ \E r \in AddressResponses :
        /\ nextAddr' = AddrAfter(r)
        /\ IF r.err = NoErr
           THEN /\ loopIx' = (loopIx + 1) % ChainCount
                /\ Goto(IF loopIx + 1 < ChainCount THEN "wh_chain_addr"
                        ELSE "wh_chain_send")
           ELSE /\ UNCHANGED loopIx
                /\ Catch(r.err, "wh_chain_mine")
    /\ UNCHANGED <<dustOutputs, utxos, amount, txid, bumps, wstate, height,
                   unsynced, notWh>>

\* lines 478-484: the sends of 2.0, 1.0 and 0.5, with no mining in between;
\* send ix pays the address of request ix of lines 473-475, the last
\* ChainCount addresses the node handed out
WhChainSend ==
    /\ pc = "wh_chain_send"
    /\ \E r \in PlainResponses :
        IF r.err = NoErr
        THEN /\ sends' = Append(sends, Sent("sendtoaddress",
                                            nextAddr - ChainCount + loopIx,
                                            ChainAmount(loopIx)))
             /\ loopIx' = loopIx + 1
             /\ Goto(IF loopIx + 1 < ChainCount THEN "wh_chain_send"
                     ELSE "wh_chain_mine")
        ELSE /\ UNCHANGED <<loopIx, sends>>
             /\ Catch(r.err, "wh_chain_mine")
    /\ UNCHANGED <<dustOutputs, utxos, amount, txid, bumps, nodeVars, unsynced>>
    /\ UNCHANGED <<acqVars, drvVars, mineVars, syncVars, ctsVars, smVars, tmsVars,
                   runVars, addr, reusedAddr>>

\* line 490
WhChainMine ==
    /\ pc = "wh_chain_mine"
    /\ EnterMine(coordinatorWallet, 1, "wh_final_sync", "none")
    /\ UNCHANGED <<whVars, nodeVars, unsynced>>
    /\ UNCHANGED <<acqVars, drvVars, syncVars, ctsVars, smVars, tmsVars, runVars, pvVars>>

\* line 492
WhFinalSync ==
    /\ pc = "wh_final_sync"
    /\ EnterSync(coordinatorWallet, "wh_save", "none")
    /\ UNCHANGED <<nodeVars, acqVars, drvVars, mineVars, unsynced, progVars>>

\* line 494: saveCaravanConfig(scenarioName, signers)
WhSave ==
    /\ pc = "wh_save"
    /\ fixtures' = WriteFile(fixtures, ConfigPath("waste_heavy"),
                             CaravanConfig("waste_heavy", signers))
    /\ loopIx' = 1
    /\ Goto("wh_stat_acq1")
    /\ UNCHANGED <<dustOutputs, utxos, amount, txid, bumps, nodeVars, unsynced>>
    /\ UNCHANGED <<acqVars, drvVars, mineVars, syncVars, ctsVars, smVars,
                   tmsVars, argScenario, test, exitCode, pvVars>>

\* lines 499-500: for each signer, acquire its wallet for getbalance
WhStatAcq1 ==
    /\ pc = "wh_stat_acq1"
    /\ IF loopIx <= Len(signers)
       THEN EnterAcquire(signers[loopIx].name, "wh_stat_bal", "none")
       ELSE Goto("wh_mempool") /\ UNCHANGED acqVars
    /\ UNCHANGED <<nodeVars, drvVars, mineVars, syncVars, unsynced, progVars>>

\* line 500: getbalance on the acquired wallet
WhStatBal ==
    /\ pc = "wh_stat_bal"
    /\ \E r \in BalanceResponses :
        IF r.err = NoErr THEN Goto("wh_stat_acq2") ELSE Throw(r.err)
    /\ AcqTaken
    /\ UNCHANGED <<whVars, nodeVars, unsynced, whRest>>

\* line 501: acquire the wallet again for listunspent
WhStatAcq2 ==
    /\ pc = "wh_stat_acq2"
    /\ EnterAcquire(signers[loopIx].name, "wh_stat_list", "none")
    /\ UNCHANGED <<nodeVars, drvVars, mineVars, syncVars, unsynced, progVars>>

\* lines 501-502: listunspent on the acquired wallet
WhStatList ==
    /\ pc = "wh_stat_list"
    /\ \E r \in UtxoResponses :
        IF r.err = NoErr
        THEN loopIx' = loopIx + 1 /\ Goto("wh_stat_acq1")
        ELSE UNCHANGED loopIx /\ Throw(r.err)
    /\ AcqTaken
    /\ UNCHANGED <<dustOutputs, utxos, amount, txid, bumps, nodeVars, unsynced,
                   whRest>>

\* lines 506-511: getmempoolinfo on the base client, in a try block
WhMempool ==
    /\ pc = "wh_mempool"
    /\ \E r \in PlainResponses :
        Return
    /\ UNCHANGED <<whVars, nodeVars, unsynced, notWh>>

\* the steps after the multisig assembly of line 348
WastePatterns ==
    \/ WhDustInit \/ WhDustAddr \/ WhDustSend \/ WhDustMine
    \/ WhSmallAddr \/ WhSmallSend \/ WhSmallMine
    \/ WhOddAddr \/ WhOddSend \/ WhOddMine
    \/ WhConsList \/ WhConsAddr \/ WhConsCreate \/ WhConsSign \/ WhConsSend
    \/ WhConsMine
    \/ WhOpAddr \/ WhOpList \/ WhOpCreate \/ WhOpSign \/ WhOpSend \/ WhOpMine
    \/ WhRbfAddr \/ WhRbfSend \/ WhBump \/ WhRbfMine
    \/ WhChainAddr \/ WhChainSend \/ WhChainMine
    \/ WhFinalSync \/ WhSave
    \/ WhStatAcq1 \/ WhStatBal \/ WhStatAcq2 \/ WhStatList \/ WhMempool

WasteSteps == WhStart \/ WastePatterns

----------------------------------------------------------------------------
(* privacyGood (src/index.ts 515-540) *)

\* line 523
GoodRounds == 10

GoodLoopContinues_OffByOne(ix) == ix <= GoodRounds

\* line 523: i < 10
GoodLoopContinues(ix) == ix < GoodRounds

pgRest == <<drvVars, mineVars, syncVars, ctsVars, smVars, tmsVars, runVars>>

\* line 519
PgStart ==
    /\ pc = "pg_start"
    /\ EnterSetup("privacy_good", "pg_init", "none")
    /\ UNCHANGED <<nodeVars, acqVars, drvVars, mineVars, syncVars, unsynced>>
    /\ UNCHANGED <<i, signers, wallet, currentBalance, xpub, xfp, pubkey, smVars,
                   whVars, tmsVars, runVars, pvVars>>

\* line 523: let i = 0
PgInit ==
    /\ pc = "pg_init"
    /\ loopIx' = 0
    /\ sends' = <<>>
    /\ Goto("pg_loop")
    /\ UNCHANGED <<dustOutputs, utxos, amount, txid, bumps, addr, reusedAddr>>
    /\ UNCHANGED <<nodeVars, unsynced, acqVars, pgRest>>

\* line 523: the loop test
PgLoop ==
    /\ pc = "pg_loop"
    /\ Goto(IF GoodLoopContinues(loopIx) THEN "pg_addr" ELSE "pg_save")
    /\ UNCHANGED <<whVars, pvVars, nodeVars, unsynced, acqVars, pgRest>>

\* line 524: a fresh address for the round
PgAddr ==
    /\ pc = "pg_addr"
    /\ \E r \in AddressResponses :
        /\ nextAddr' = AddrAfter(r)
        /\ IF r.err = NoErr
           THEN addr' = r.val /\ Goto("pg_send")
           ELSE UNCHANGED addr /\ Throw(r.err)
    /\ UNCHANGED <<whVars, reusedAddr, sends, wstate, height, unsynced, acqVars,
                   pgRest>>

\* line 525: sendtoaddress(addr, 1.0)
PgSend ==
    /\ pc = "pg_send"
    /\ \E r \in PlainResponses :
        IF r.err = NoErr
        THEN sends' = Append(sends, Sent("sendtoaddress", addr, Btc(1))) /\ Goto("pg_mine")
        ELSE UNCHANGED sends /\ Throw(r.err)
    /\ UNCHANGED <<whVars, addr, reusedAddr, nodeVars, unsynced, acqVars, pgRest>>

\* line 526
PgMine ==
    /\ pc = "pg_mine"
    /\ EnterMine(coordinatorWallet, 1, "pg_sync", "none")
    /\ UNCHANGED <<nodeVars, acqVars, drvVars, syncVars, unsynced, progVars>>

\* line 527
PgSync ==
    /\ pc = "pg_sync"
    /\ EnterSync(coordinatorWallet, "pg_next", "none")
    /\ UNCHANGED <<nodeVars, acqVars, drvVars, mineVars, unsynced, progVars>>

\* lines 528-529 and the i++ of line 523
PgNext ==
    /\ pc = "pg_next"
    /\ loopIx' = loopIx + 1
    /\ Goto("pg_loop")
    /\ UNCHANGED <<dustOutputs, utxos, amount, txid, bumps, pvVars>>
    /\ UNCHANGED <<nodeVars, unsynced, acqVars, pgRest>>

\* lines 531-532: saveCaravanConfig(scenarioName, signers)
PgSave ==
    /\ pc = "pg_save"
    /\ fixtures' = WriteFile(fixtures, ConfigPath("privacy_good"),
                             CaravanConfig("privacy_good", signers))
    /\ loopIx' = 1
    /\ Goto("pg_stat_acq")
    /\ UNCHANGED <<dustOutputs, utxos, amount, txid, bumps, pvVars, nodeVars,
                   unsynced>>
    /\ UNCHANGED <<acqVars, drvVars, mineVars, syncVars, ctsVars, smVars,
                   tmsVars, argScenario, test, exitCode>>

\* lines 536-537: for each signer, acquire its wallet; return after the last
PgStatAcq ==
    /\ pc = "pg_stat_acq"
    /\ IF loopIx <= Len(signers)
       THEN EnterAcquire(signers[loopIx].name, "pg_stat_bal", "none")
       ELSE Return /\ UNCHANGED acqVars
    /\ UNCHANGED <<nodeVars, drvVars, mineVars, syncVars, unsynced, progVars>>

\* lines 537-538: getbalance on the acquired wallet
PgStatBal ==
    /\ pc = "pg_stat_bal"
    /\ \E r \in BalanceResponses :
        IF r.err = NoErr
        THEN loopIx' = loopIx + 1 /\ Goto("pg_stat_acq")
        ELSE UNCHANGED loopIx /\ Throw(r.err)
    /\ AcqTaken
    /\ UNCHANGED <<dustOutputs, utxos, amount, txid, bumps, pvVars>>
    /\ UNCHANGED <<nodeVars, unsynced, pgRest>>

\* the steps after the multisig assembly of line 519
GoodRoundsSteps ==
    \/ PgInit \/ PgLoop \/ PgAddr \/ PgSend \/ PgMine \/ PgSync \/ PgNext
    \/ PgSave \/ PgStatAcq \/ PgStatBal

GoodSteps == PgStart \/ GoodRoundsSteps

----------------------------------------------------------------------------
(* privacyBad (src/index.ts 543-597) *)

\* line 554
BadSends == 5
\* line 568
MixMaxInputs == 5
\* line 574: 0.0001 BTC
MixFee == 10

BadLoopContinues_Short(ix) == ix < BadSends - 1

\* line 554: i < 5
BadLoopContinues(ix) == ix < BadSends

MixInputs_All(l) == l

\* line 568: utxos.slice(0, Math.min(5, utxos.length))
MixInputs(l) ==
    SubSeq(l, 1, IF MixMaxInputs < Len(l) THEN MixMaxInputs ELSE Len(l))

\* lines 570-571: the amount of the first listed output with the input's
\* txid and vout, 0 if there is none
FoundAmount(l, inp) ==
    LET same == {m \in 1..Len(l) : l[m].txid = inp.txid /\ l[m].vout = inp.vout}
    IN  IF same = {} THEN 0
        ELSE l[CHOOSE m \in same : \A o \in same : m <= o].amount

RECURSIVE MixTotalOf(_, _)
\* lines 569-572: inputs.reduce over the listed outputs
MixTotalOf(l, ins) ==
    IF ins = <<>> THEN 0
    ELSE FoundAmount(l, Head(ins)) + MixTotalOf(l, Tail(ins))

\* line 574
MixOutputAmount(l) == MixTotalOf(l, MixInputs(l)) - MixFee

\* line 547
PbStart ==
    /\ pc = "pb_start"
    /\ EnterSetup("privacy_bad", "pb_addr", "none")
    /\ UNCHANGED <<nodeVars, acqVars, drvVars, mineVars, syncVars, unsynced>>
    /\ UNCHANGED <<i, signers, wallet, currentBalance, xpub, xfp, pubkey, smVars,
                   whVars, tmsVars, runVars, pvVars>>

\* line 551: the one address every send will pay; line 554: let i = 0
PbAddr ==
    /\ pc = "pb_addr"
    /\ \E r \in AddressResponses :
        /\ nextAddr' = AddrAfter(r)
        /\ IF r.err = NoErr
           THEN /\ reusedAddr' = r.val
                /\ loopIx' = 0
                /\ sends' = <<>>
                /\ Goto("pb_loop")
           ELSE /\ UNCHANGED <<reusedAddr, loopIx, sends>>
                /\ Throw(r.err)
    /\ UNCHANGED <<dustOutputs, utxos, amount, txid, bumps, addr>>
    /\ UNCHANGED <<wstate, height, unsynced, acqVars, pgRest>>

\* line 554: the loop test
PbLoop ==
    /\ pc = "pb_loop"
    /\ Goto(IF BadLoopContinues(loopIx) THEN "pb_send" ELSE "pb_mine1")
    /\ UNCHANGED <<whVars, pvVars, nodeVars, unsynced, acqVars, pgRest>>

\* lines 555-556: sendtoaddress(reusedAddr, 2.0), then i++
PbSend ==
    /\ pc = "pb_send"
    /\ \E r \in PlainResponses :
        IF r.err = NoErr
        THEN /\ sends' = Append(sends, Sent("sendtoaddress", reusedAddr, Btc(2)))
             /\ loopIx' = loopIx + 1
             /\ Goto("pb_loop")
        ELSE /\ UNCHANGED <<sends, loopIx>>
             /\ Throw(r.err)
    /\ UNCHANGED <<dustOutputs, utxos, amount, txid, bumps, addr, reusedAddr>>
    /\ UNCHANGED <<nodeVars, unsynced, acqVars, pgRest>>

\* line 559
PbMine1 ==
    /\ pc = "pb_mine1"
    /\ EnterMine(coordinatorWallet, 1, "pb_sync1", "none")
    /\ UNCHANGED <<nodeVars, acqVars, drvVars, syncVars, unsynced, progVars>>

\* line 560
PbSync1 ==
    /\ pc = "pb_sync1"
    /\ EnterSync(coordinatorWallet, "pb_list", "none")
    /\ UNCHANGED <<nodeVars, acqVars, drvVars, mineVars, unsynced, progVars>>

\* lines 564-576: listunspent(1), the inputs, their total and the output amount
PbList ==
    /\ pc = "pb_list"
    /\ \E r \in UtxoResponses :
        IF r.err = NoErr
        THEN /\ utxos' = r.val
             /\ IF Len(r.val) > 0
                THEN /\ amount' = MixOutputAmount(r.val)
                     /\ Goto(IF MixOutputAmount(r.val) > 0
                             THEN "pb_create" ELSE "pb_mine2")
                ELSE /\ UNCHANGED amount
                     /\ Goto("pb_mine2")
        ELSE /\ UNCHANGED <<utxos, amount>>
             /\ Throw(r.err)
    /\ UNCHANGED <<loopIx, dustOutputs, txid, bumps, pvVars>>
    /\ UNCHANGED <<nodeVars, unsynced, acqVars, pgRest>>

\* line 578: createrawtransaction(inputs, { [reusedAddr]: outputAmount })
PbCreate ==
    /\ pc = "pb_create"
    /\ \E r \in PlainResponses :
        IF r.err = NoErr THEN Goto("pb_sign") ELSE Throw(r.err)
    /\ UNCHANGED <<whVars, pvVars, nodeVars, unsynced, acqVars, pgRest>>

\* line 579: signrawtransactionwithwallet; `complete` is not looked at
PbSign ==
    /\ pc = "pb_sign"
    /\ \E r \in SignResponses :
        IF r.err = NoErr THEN Goto("pb_mix") ELSE Throw(r.err)
    /\ UNCHANGED <<whVars, pvVars, nodeVars, unsynced, acqVars, pgRest>>

\* line 580: sendrawtransaction of the transaction built at line 578, whose
\* single output pays outputAmount to reusedAddr
PbMix ==
    /\ pc = "pb_mix"
    /\ \E r \in PlainResponses :
        IF r.err = NoErr
        THEN /\ sends' = Append(sends, Sent("sendrawtransaction", reusedAddr, amount))
             /\ Goto("pb_mine2")
        ELSE /\ UNCHANGED sends
             /\ Throw(r.err)
    /\ UNCHANGED <<whVars, addr, reusedAddr, nodeVars, unsynced, acqVars, pgRest>>

\* line 585
PbMine2 ==
    /\ pc = "pb_mine2"
    /\ EnterMine(coordinatorWallet, 1, "pb_sync2", "none")
    /\ UNCHANGED <<nodeVars, acqVars, drvVars, syncVars, unsynced, progVars>>

\* line 586
PbSync2 ==
    /\ pc = "pb_sync2"
    /\ EnterSync(coordinatorWallet, "pb_save", "none")
    /\ UNCHANGED <<nodeVars, acqVars, drvVars, mineVars, unsynced, progVars>>

\* lines 588-589: saveCaravanConfig(scenarioName, signers)
PbSave ==
    /\ pc = "pb_save"
    /\ fixtures' = WriteFile(fixtures, ConfigPath("privacy_bad"),
                             CaravanConfig("privacy_bad", signers))
    /\ loopIx' = 1
    /\ Goto("pb_stat_acq")
    /\ UNCHANGED <<dustOutputs, utxos, amount, txid, bumps, pvVars, nodeVars,
                   unsynced>>
    /\ UNCHANGED <<acqVars, drvVars, mineVars, syncVars, ctsVars, smVars,
                   tmsVars, argScenario, test, exitCode>>

\* lines 593-594: for each signer, acquire its wallet; return after the last
PbStatAcq ==
    /\ pc = "pb_stat_acq"
    /\ IF loopIx <= Len(signers)
       THEN EnterAcquire(signers[loopIx].name, "pb_stat_bal", "none")
       ELSE Return /\ UNCHANGED acqVars
    /\ UNCHANGED <<nodeVars, drvVars, mineVars, syncVars, unsynced, progVars>>

\* lines 594-595: getbalance on the acquired wallet
PbStatBal ==
    /\ pc = "pb_stat_bal"
    /\ \E r \in BalanceResponses :
        IF r.err = NoErr
        THEN loopIx' = loopIx + 1 /\ Goto("pb_stat_acq")
        ELSE UNCHANGED loopIx /\ Throw(r.err)
    /\ AcqTaken
    /\ UNCHANGED <<dustOutputs, utxos, amount, txid, bumps, pvVars>>
    /\ UNCHANGED <<nodeVars, unsynced, pgRest>>

\* the steps after the multisig assembly of line 547
BadReuseSteps ==
    \/ PbAddr \/ PbLoop \/ PbSend \/ PbMine1 \/ PbSync1 \/ PbList \/ PbCreate
    \/ PbSign \/ PbMix \/ PbMine2 \/ PbSync2 \/ PbSave \/ PbStatAcq \/ PbStatBal

BadSteps == PbStart \/ BadReuseSteps

----------------------------------------------------------------------------
(* testMultisigSpending (src/index.ts 600-652): the whole body is one try  *)
(* block, so every call site has the handler of lines 649-651              *)

notTms == <<acqVars, drvVars, mineVars, syncVars, ctsVars, smVars, whVars, runVars, pvVars>>

\* signrawtransactionwithwallet answers { hex, complete }; a transaction's hex
\* is modelled by the wallets that have signed it, in order
Signed(hex, w, complete) == [hex |-> Append(hex, w), complete |-> complete]

\* line 631: the transaction createrawtransaction returns carries no signature
Unsigned == [hex |-> <<>>, complete |-> FALSE]

Broadcasts_Always(sg2) == TRUE

\* line 641: if (signed2.complete)
Broadcasts(sg2) == sg2.complete

EnterTest(scenario, ret, catch) ==
    /\ scn' = scenario
    /\ CallFn("tms_acq1", ret, catch)

\* line 605
TmsAcq1 ==
    /\ pc = "tms_acq1"
    /\ EnterAcquire(SignerName(scn, 0), "tms_acq2", "tms_catch")
    /\ UNCHANGED <<nodeVars, drvVars, mineVars, syncVars, unsynced, progVars>>

\* line 606
TmsAcq2 ==
    /\ pc = "tms_acq2"
    /\ signer1' = handle
    /\ EnterAcquire(SignerName(scn, 1), "tms_list", "tms_catch")
    /\ UNCHANGED <<nodeVars, drvVars, mineVars, syncVars, unsynced>>
    /\ UNCHANGED <<ctsVars, smVars, whVars, signer2, tutxos, signed1, signed2,
                   runVars, pvVars>>

\* lines 609-622: listunspent(1) on signer 1; nothing to spend returns
TmsList ==
    /\ pc = "tms_list"
    /\ signer2' = handle
    /\ \E r \in UtxoResponses :
        IF r.err = NoErr
        THEN /\ tutxos' = r.val
             /\ IF Len(r.val) = 0 THEN Return ELSE Goto("tms_addr")
        ELSE /\ UNCHANGED tutxos
             /\ Catch(r.err, "tms_catch")
    /\ AcqTaken
    /\ UNCHANGED <<signer1, signed1, signed2, nodeVars, unsynced, drvVars,
                   mineVars, syncVars, ctsVars, smVars, whVars, runVars, pvVars>>

\* line 625
TmsAddr ==
    /\ pc = "tms_addr"
    /\ \E r \in AddressResponses :
        /\ nextAddr' = AddrAfter(r)
        /\ IF r.err = NoErr THEN Goto("tms_create")
           ELSE Catch(r.err, "tms_catch")
    /\ UNCHANGED <<tmsVars, wstate, height, unsynced, notTms>>

\* line 631
TmsCreate ==
    /\ pc = "tms_create"
    /\ \E r \in PlainResponses :
        IF r.err = NoErr THEN Goto("tms_sign1") ELSE Catch(r.err, "tms_catch")
    /\ UNCHANGED <<tmsVars, nodeVars, unsynced, notTms>>

\* line 634: signer 1 signs the raw transaction
TmsSign1 ==
    /\ pc = "tms_sign1"
    /\ \E r \in SignResponses :
        IF r.err = NoErr
        THEN /\ signed1' = Signed(Unsigned.hex, signer1, r.val)
             /\ Goto("tms_sign2")
        ELSE /\ UNCHANGED signed1
             /\ Catch(r.err, "tms_catch")
    /\ UNCHANGED <<signer1, signer2, tutxos, signed2, nodeVars, unsynced, notTms>>

\* lines 638-647: signer 2 signs signed1.hex; broadcast only when complete,
\* otherwise the partial signature is logged and the function returns
TmsSign2 ==
    /\ pc = "tms_sign2"
    /\ \E r \in SignResponses :
        IF r.err = NoErr
        THEN /\ signed2' = Signed(signed1.hex, signer2, r.val)
             /\ IF Broadcasts(Signed(signed1.hex, signer2, r.val))
                THEN Goto("tms_send") ELSE Return
        ELSE /\ UNCHANGED signed2
             /\ Catch(r.err, "tms_catch")
    /\ UNCHANGED <<signer1, signer2, tutxos, signed1, nodeVars, unsynced, notTms>>

\* line 642
TmsSend ==
    /\ pc = "tms_send"
    /\ \E r \in PlainResponses :
        IF r.err = NoErr THEN Goto("tms_mine") ELSE Catch(r.err, "tms_catch")
    /\ UNCHANGED <<tmsVars, nodeVars, unsynced, notTms>>

\* line 643
TmsMine ==
    /\ pc = "tms_mine"
    /\ EnterMine(signer1, 1, "tms_done", "tms_catch")
    /\ UNCHANGED <<nodeVars, acqVars, drvVars, syncVars, unsynced, progVars>>

\* line 644
TmsDone ==
    /\ pc = "tms_done"
    /\ Return
    /\ UNCHANGED <<tmsVars, nodeVars, unsynced, notTms>>

\* lines 649-651: the error is logged and not rethrown
TmsCatch ==
    /\ pc = "tms_catch"
    /\ pc' = Head(stack).ret
    /\ stack' = Tail(stack)
    /\ thrown' = NoErr
    /\ origin' = "none"
    /\ UNCHANGED <<tmsVars, nodeVars, unsynced, notTms>>

TestSteps ==
    \/ TmsAcq1 \/ TmsAcq2 \/ TmsList \/ TmsAddr \/ TmsCreate \/ TmsSign1
    \/ TmsSign2 \/ TmsSend \/ TmsMine \/ TmsDone \/ TmsCatch

----------------------------------------------------------------------------
(* The command line and the scenario runner (src/index.ts 655-706) *)

\* lines 658-663: the choices of --scenario
Scenarios == {"privacy-good", "privacy-bad", "waste-heavy", "all"}

\* line 690: the only scenario block that is not commented out
RunsWasteHeavy(scenario) == scenario = "waste-heavy" \/ scenario = "all"

notRun == <<nodeVars, acqVars, drvVars, mineVars, syncVars, unsynced, ctsVars,
            smVars, whVars, tmsVars>>

\* lines 678-691
RunStart ==
    /\ pc = "run_start"
    /\ IF RunsWasteHeavy(argScenario)
       THEN CallFn("wh_start", "run_test", "run_catch")
       ELSE Goto("run_done")
    /\ UNCHANGED <<runVars, pvVars, notRun>>

\* line 692
RunTest ==
    /\ pc = "run_test"
    /\ IF test
       THEN EnterTest("waste_heavy", "run_done", "run_catch")
       ELSE Goto("run_done") /\ UNCHANGED scn
    /\ UNCHANGED <<nodeVars, acqVars, drvVars, mineVars, syncVars, unsynced>>
    /\ UNCHANGED <<i, signers, wallet, currentBalance, xpub, xfp, pubkey, smVars,
                   whVars, tmsVars, runVars, pvVars>>

\* lines 695-700: the summary is printed and the process ends normally
RunDone ==
    /\ pc = "run_done"
    /\ exitCode' = 0
    /\ Goto("exit")
    /\ UNCHANGED <<argScenario, test, fixtures, pvVars, notRun>>

\* lines 702-705: process.exit(1)
RunCatch ==
    /\ pc = "run_catch"
    /\ exitCode' = 1
    /\ Goto("exit")
    /\ UNCHANGED <<argScenario, test, fixtures, pvVars, notRun>>

RunSteps == RunStart \/ RunTest \/ RunDone \/ RunCatch

----------------------------------------------------------------------------
(* A caller of loadOrCreateWallet: any sequence of calls, any names *)

NoCall == [name |-> "none", ok |-> FALSE, handle |-> "none", honest |-> FALSE,
           pre |-> "none", loads |-> 0]

Outcome(ok) == [name |-> aname, ok |-> ok, handle |-> handle,
                honest |-> ~faulty, pre |-> pre, loads |-> loads]

DrvCall ==
    /\ pc = "drv"
    /\ ncalls < MaxCalls
    /\ \E n \in Names : EnterAcquire(n, "drv_ok", "drv_err")
    /\ UNCHANGED <<drvVars, notDrv>>

DrvOk ==
    /\ pc = "drv_ok"
    /\ prev' = last
    /\ last' = Outcome(TRUE)
    /\ ncalls' = ncalls + 1
    /\ Goto("drv")
    /\ UNCHANGED <<acqVars, notDrv>>

DrvErr ==
    /\ pc = "drv_err"
    /\ prev' = last
    /\ last' = Outcome(FALSE)
    /\ ncalls' = ncalls + 1
    /\ Goto("drv")
    /\ UNCHANGED <<acqVars, notDrv>>

InitCommon ==
    /\ stack = <<>>
    /\ thrown = NoErr
    /\ origin = "none"
    /\ nextAddr = 1
    /\ scn = "none"
    /\ i = 0
    /\ signers = <<>>
    /\ wallet = "none"
    /\ currentBalance = 0
    /\ xpub = <<>>
    /\ xfp = <<>>
    /\ pubkey = <<>>
    /\ balance = 0
    /\ j = 0
    /\ coordinatorWallet = "none"
    /\ multisig = NoMultisig
    /\ fundingTxid = NoTx
    /\ loopIx = 0
    /\ dustOutputs = <<>>
    /\ utxos = <<>>
    /\ amount = 0
    /\ txid = "none"
    /\ bumps = <<>>
    /\ signer1 = "none"
    /\ signer2 = "none"
    /\ tutxos = <<>>
    /\ signed1 = Unsigned
    /\ signed2 = Unsigned
    /\ exitCode = -1
    /\ fixtures = <<>>
    /\ addr = 0
    /\ reusedAddr = 0
    /\ sends = <<>>
    /\ aname = "none"
    /\ calls = <<>>
    /\ handle = "none"
    /\ faulty = FALSE
    /\ loads = 0
    /\ pre = "none"
    /\ ncalls = 0
    /\ last = NoCall
    /\ prev = NoCall
    /\ height = 0
    /\ mwallet = "none"
    /\ mblocks = 0
    /\ swallet = "none"
    /\ attempts = 0
    /\ currentHeight = 0
    /\ polls = 0
    /\ rescans = 0
    /\ unsynced = {}

InitAcquire ==
    /\ pc = "drv"
    /\ argScenario = "none"
    /\ test = FALSE
    /\ wstate \in [Names -> WalletStates]
    /\ InitCommon

NextAcquire == DrvCall \/ DrvOk \/ DrvErr \/ AcquireSteps

SpecAcquire == InitAcquire /\ [][NextAcquire]_vars

----------------------------------------------------------------------------
(* A caller of mine and syncWallet: rounds of `await mine(wallet, n);      *)
(* await syncWallet(wallet)` as at lines 142-143, 264-265 and 526-527      *)

\* the block counts the program mines: lines 142, 153, 264, 291
MineCounts == {101, 50, 75, 1}

SdMine ==
    /\ pc = "sd"
    /\ ncalls < MaxRounds
    /\ \E w \in Names, b \in MineCounts : EnterMine(w, b, "sd_mined", "sd_mine_err")
    /\ UNCHANGED <<nodeVars, acqVars, drvVars, syncVars, unsynced, progVars>>

SdSync ==
    /\ pc = "sd_mined"
    /\ EnterSync(mwallet, "sd_synced", "sd_sync_err")
    /\ UNCHANGED <<nodeVars, acqVars, drvVars, mineVars, unsynced, progVars>>

SdDone ==
    /\ pc = "sd_synced"
    /\ ncalls' = ncalls + 1
    /\ Goto("sd")
    /\ UNCHANGED <<last, prev, acqVars, notDrv>>

InitSync ==
    /\ pc = "sd"
    /\ argScenario = "none"
    /\ test = FALSE
    /\ wstate = [n \in Names |-> "loaded"]
    /\ InitCommon

NextSync == SdMine \/ SdSync \/ SdDone \/ MineSteps \/ SyncSteps

SpecSync == InitSync /\ [][NextSync]_vars

\* every awaited RPC is answered, so the program always takes its next step
FairSync == SpecSync /\ WF_vars(NextSync)

----------------------------------------------------------------------------
(* The program: the runner started with any command line, against a node   *)
(* on which each signer wallet is absent, on disk or loaded                *)

Init ==
    /\ pc = "run_start"
    /\ argScenario \in Scenarios
    /\ test \in BOOLEAN
    /\ wstate \in [Names -> WalletStates]
    /\ InitCommon

Next ==
    \/ RunSteps \/ WasteSteps \/ SetupSteps \/ SignersSteps \/ AcquireSteps
    \/ MineSteps \/ SyncSteps \/ TestSteps

Spec == Init /\ [][Next]_vars

----------------------------------------------------------------------------
(* The program from its start to the return of setupMultisigWithTwoWallets *)
(* (line 348): the runner, the signer wallets and the multisig assembly    *)

NextSetup ==
    \/ RunStart \/ RunDone \/ RunCatch \/ WhStart
    \/ SetupSteps \/ SignersSteps \/ AcquireSteps \/ MineSteps \/ SyncSteps

SpecSetup == Init /\ [][NextSetup]_vars

----------------------------------------------------------------------------
(* The program from the return of setupMultisigWithTwoWallets (line 348)   *)
(* to its exit: the waste patterns, the statistics, the spend test and the *)
(* end of the runner.  It starts where a run of SpecSetup in which no      *)
(* wallet needed funding has arrived: both wallets loaded, one block mined *)
(* by the assembly, three addresses handed out.                            *)

\* the keys a signer came back with: from its receiving descriptor, or the
\* public key alone when the descriptor carries no [fingerprint/path]xpub
KeyedSigner(idx) ==
    Signer(SignerName("waste_heavy", idx), PubkeyOf(SignerName("waste_heavy", idx)),
           DescWpkhRecv.key, DescWpkhRecv.fp, SignerName("waste_heavy", idx))
BareSigner(idx) ==
    Signer(SignerName("waste_heavy", idx), PubkeyOf(SignerName("waste_heavy", idx)),
           <<>>, Zero8, SignerName("waste_heavy", idx))
AssembledSigners ==
    {<<a, b>> : a \in {KeyedSigner(0), BareSigner(0)},
                b \in {KeyedSigner(1), BareSigner(1)}}

InitWaste ==
    /\ pc = "wh_dust_init"
    /\ stack = <<Frame("run_test", "run_catch")>>
    /\ thrown = NoErr
    /\ origin = "none"
    /\ wstate = [n \in Names |-> "loaded"]
    /\ height = 1
    /\ nextAddr = 4
    /\ aname = "none"
    /\ calls = <<>>
    /\ handle = SignerName("waste_heavy", 1)
    /\ faulty = FALSE
    /\ loads = 0
    /\ pre = "none"
    /\ ncalls = 0
    /\ last = NoCall
    /\ prev = NoCall
    /\ mwallet = SignerName("waste_heavy", 0)
    /\ mblocks = 1
    /\ swallet = "none"
    /\ attempts = 0
    /\ currentHeight = 0
    /\ polls = 0
    /\ rescans = 0
    /\ unsynced = {}
    /\ scn = "waste_heavy"
    /\ i = NumSigners
    /\ signers \in AssembledSigners
    /\ wallet = "none"
    /\ currentBalance = 0
    /\ xpub = <<>>
    /\ xfp = <<>>
    /\ pubkey = <<>>
    /\ balance = 0
    /\ j = 0
    /\ coordinatorWallet = SignerName("waste_heavy", 0)
    /\ multisig = MultisigOf(2, Pubkeys(signers))
    /\ fundingTxid = NoTx
    /\ loopIx = 0
    /\ dustOutputs = <<>>
    /\ utxos = <<>>
    /\ amount = 0
    /\ txid = "none"
    /\ bumps = <<>>
    /\ signer1 = "none"
    /\ signer2 = "none"
    /\ tutxos = <<>>
    /\ signed1 = Unsigned
    /\ signed2 = Unsigned
    /\ argScenario \in {s \in Scenarios : RunsWasteHeavy(s)}
    /\ test \in BOOLEAN
    /\ exitCode = -1
    /\ fixtures = <<>>
    /\ addr = 0
    /\ reusedAddr = 0
    /\ sends = <<>>

\* The state at the return of setupMultisigWithTwoWallets for scenario x, after
\* an assembly in which no wallet needed funding; control is at label `entry`
\* of the generator, which a caller awaits with continuation k and handler h.
InitAssembled(x, entry, k, h) ==
    /\ pc = entry
    /\ stack = <<Frame(k, h)>>
    /\ thrown = NoErr
    /\ origin = "none"
    /\ wstate = [n \in {SignerName(x, 0), SignerName(x, 1)} |-> "loaded"]
    /\ height = 1
    /\ nextAddr = 4
    /\ aname = "none"
    /\ calls = <<>>
    /\ handle = SignerName(x, 1)
    /\ faulty = FALSE
    /\ loads = 0
    /\ pre = "none"
    /\ ncalls = 0
    /\ last = NoCall
    /\ prev = NoCall
    /\ mwallet = SignerName(x, 0)
    /\ mblocks = 1
    /\ swallet = "none"
    /\ attempts = 0
    /\ currentHeight = 0
    /\ polls = 0
    /\ rescans = 0
    /\ unsynced = {}
    /\ scn = x
    /\ i = NumSigners
    /\ signers \in
         {<<Signer(SignerName(x, 0), PubkeyOf(SignerName(x, 0)), a.xpub, a.xfp,
                   SignerName(x, 0)),
            Signer(SignerName(x, 1), PubkeyOf(SignerName(x, 1)), b.xpub, b.xfp,
                   SignerName(x, 1))>> :
            a \in {KeyedSigner(0), BareSigner(0)},
            b \in {KeyedSigner(1), BareSigner(1)}}
    /\ wallet = "none"
    /\ currentBalance = 0
    /\ xpub = <<>>
    /\ xfp = <<>>
    /\ pubkey = <<>>
    /\ balance = 0
    /\ j = 0
    /\ coordinatorWallet = SignerName(x, 0)
    /\ multisig = MultisigOf(2, Pubkeys(signers))
    /\ fundingTxid = NoTx
    /\ loopIx = 0
    /\ dustOutputs = <<>>
    /\ utxos = <<>>
    /\ amount = 0
    /\ txid = "none"
    /\ bumps = <<>>
    /\ signer1 = "none"
    /\ signer2 = "none"
    /\ tutxos = <<>>
    /\ signed1 = Unsigned
    /\ signed2 = Unsigned
    /\ argScenario = "none"
    /\ test = FALSE
    /\ exitCode = -1
    /\ fixtures = <<>>
    /\ addr = 0
    /\ reusedAddr = 0
    /\ sends = <<>>

NextWaste ==
    \/ WastePatterns \/ AcqList \/ AcqReturn \/ MineSteps \/ SyncSteps
    \/ RunTest \/ TestSteps \/ RunDone \/ RunCatch

SpecWaste == InitWaste /\ [][NextWaste]_vars

----------------------------------------------------------------------------
(* A caller of privacyGood, as the runner's disabled block of lines        *)
(* 680-683 would be: the generator from the return of the assembly (519)   *)
(* to its own return or failure                                            *)

InitGood == InitAssembled("privacy_good", "pg_init", "good_done", "good_failed")

NextGood ==
    \/ GoodRoundsSteps \/ AcqList \/ AcqReturn \/ MineSteps \/ SyncSteps

SpecGood == InitGood /\ [][NextGood]_vars

----------------------------------------------------------------------------
(* A caller of privacyBad, as the runner's disabled block of lines 685-688 *)
(* would be: the generator from the return of the assembly (547) to its    *)
(* own return or failure                                                   *)

InitBad == InitAssembled("privacy_bad", "pb_addr", "bad_done", "bad_failed")

NextBad ==
    \/ BadReuseSteps \/ AcqList \/ AcqReturn \/ MineSteps \/ SyncSteps

SpecBad == InitBad /\ [][NextBad]_vars

----------------------------------------------------------------------------
(* Claims about wallet acquisition, checked under SpecAcquire *)

AcqLabels == {"acq_list", "acq_load", "acq_create", "acq_reload", "acq_new"}

\* C1: wallet acquisition is idempotent.  Of two consecutive calls for the
\* same name, served by a node that answers according to the wallet's state,
\* both return without error, both handles are bound to that name, the wallet
\* is loaded afterwards, and it was loaded by exactly one loadwallet or
\* createwallet RPC (by none when it was loaded to begin with).
C1_AcquireIdempotent ==
    (prev.name # "none" /\ prev.name = last.name /\ prev.honest /\ last.honest)
    => /\ prev.ok /\ last.ok
       /\ prev.handle = prev.name
       /\ last.handle = prev.name
       /\ wstate[prev.name] = "loaded"
       /\ prev.loads + last.loads = (IF prev.pre = "loaded" THEN 0 ELSE 1)

\* two consecutive honest calls for a wallet that did not exist at first
C1_Witness ==
    /\ prev.name # "none" /\ prev.name = last.name
    /\ prev.honest /\ last.honest
    /\ prev.pre = "none" /\ last.pre = "loaded"
    /\ prev.ok /\ last.ok

\* C2: the name not being listed, a failed loadwallet is followed by
\* createwallet; a createwallet failure with code -4 and a message containing
\* "Database already exists" is followed by exactly one more loadwallet whose
\* outcome is the outcome of the acquisition; any other createwallet failure
\* ends the acquisition with that error and no further RPC.
C2_CreateFallback ==
    LET n == Len(calls)
        conflict(e) == e.code = -4 /\ Includes(e.msg, DbPhrase)
        failedWith(e) == /\ pc \in {"drv_err", "drv"}
                         /\ thrown = e
                         /\ (pc = "drv" => ~last.ok)
        returned == /\ pc \in {"acq_new", "drv_ok", "drv"}
                    /\ (pc = "drv" => last.ok)
    IN /\ n <= 4
       /\ (n >= 2) => (calls[1].m = "listwallets" /\ calls[2].m = "loadwallet")
       /\ (n = 2 /\ calls[2].err # NoErr) => pc = "acq_create"
       /\ (n >= 3) => (calls[2].err # NoErr /\ calls[3].m = "createwallet")
       /\ (n = 3 /\ conflict(calls[3].err)) => pc = "acq_reload"
       /\ (n = 3 /\ calls[3].err # NoErr /\ ~conflict(calls[3].err))
            => failedWith(calls[3].err)
       /\ (n = 4) => /\ conflict(calls[3].err)
                     /\ calls[4].m = "loadwallet"
                     /\ IF calls[4].err = NoErr THEN returned
                        ELSE failedWith(calls[4].err)

\* an acquisition that succeeded through the database-conflict recovery
C2_Witness ==
    /\ pc = "drv_ok"
    /\ Len(calls) = 4
    /\ calls[3].err = E_DbExists
    /\ calls[4].err = NoErr

\* C3: createwallet is never issued for a name that is loaded in the node, a
\* call that finds the name listed issues neither loadwallet nor createwallet,
\* and no call loads a wallet twice or loads a wallet that was loaded already.
C3_NoCreateWhenLoaded ==
    /\ (pc = "acq_create") => (wstate[aname] # "loaded")
    /\ (pre = "loaded") => (\A k \in 1..Len(calls) : calls[k].m = "listwallets")
    /\ loads <= 1
    /\ (loads = 1) => (pre # "loaded")

\* a call for a wallet that an earlier call created returns after listwallets
C3_Witness ==
    /\ pc = "drv_ok"
    /\ pre = "loaded"
    /\ Len(calls) = 1
    /\ last.name = aname
    /\ last.loads = 1
    /\ last.pre = "none"

----------------------------------------------------------------------------
(* Claims about the signers and the multisig assembly, checked under       *)
(* SpecSetup                                                               *)

\* C4: every signer returned by createTwoSignerWallets carries a non-empty
\* key triple: its pubkey, its xpub and its fingerprint are all non-empty,
\* whatever listdescriptors and getwalletinfo answered.
C4_NonEmptyKeyTriple ==
    (pc = "sm_coord") =>
        \A m \in 1..Len(signers) :
            /\ signers[m].pubkey # <<>>
            /\ signers[m].xpub # <<>>
            /\ signers[m].xfp # <<>>

\* C5: createmultisig and the funding send are issued only when the
\* coordinator balance most recently observed is at least the spend
\* threshold of 15.
C5_SpendOnlyAboveThreshold ==
    (pc \in {"sm_multisig", "sm_send"}) => (balance >= Btc(15))

----------------------------------------------------------------------------
(* Claims about syncWallet, checked under SpecSync / FairSync *)

\* C6: syncWallet is bounded.  Whatever the node answers, a syncWallet call
\* issues at most 20 getbalance queries and at most one rescanblockchain,
\* and once its chain-info query has returned it always returns to its caller.
C6_SyncBounded ==
    /\ [](polls <= 20 /\ rescans <= 1)
    /\ (pc \in {"sync_poll", "sync_check", "sync_rescan"}) ~> (pc \notin SyncLabels)

\* a syncWallet that used its whole budget, rescanned and returned
C6_Witness ==
    /\ pc = "sync_ret"
    /\ polls = 20
    /\ rescans = 1

\* C7: syncWallet never fails its caller: no failure of an RPC made during a
\* sync (chain-info query, balance poll, rescan) is thrown to the caller.
C7_SyncNeverThrows == pc # "sd_sync_err"

----------------------------------------------------------------------------
(* Claims about the waste-heavy scenario, checked under SpecWaste *)

\* the steps that issue getbalance, listunspent or a spending RPC outside
\* syncWallet
WalletUseLabels ==
    {"cts_bal", "cts_bal2", "cts_bal3", "sm_bal", "sm_bal2", "sm_send",
     "wh_dust_send", "wh_small_send", "wh_odd_send", "wh_cons_list",
     "wh_cons_send", "wh_op_list", "wh_op_send", "wh_rbf_send", "wh_bump",
     "wh_chain_send", "wh_stat_bal", "wh_stat_list", "tms_list", "tms_send"}

\* the wallet the step at pc issues its RPC on
UsedWallet ==
    CASE pc \in {"cts_bal", "wh_stat_bal", "wh_stat_list"} -> handle
      [] pc \in {"cts_bal2", "cts_bal3"} -> wallet
      [] pc = "tms_list" -> signer1
      [] pc = "tms_send" -> signer1
      [] OTHER -> coordinatorWallet

\* C8: after a mine(wallet, n) no getbalance, listunspent or spending RPC is
\* issued on that wallet until a syncWallet (or a rescan) of that wallet has
\* completed.
C8_NoUseBeforeSync ==
    (pc \in WalletUseLabels) => (UsedWallet \notin unsynced)

\* the steps that issue the RPCs of the seven waste patterns
PatternLabels ==
    {"wh_dust_send", "wh_small_send", "wh_odd_send", "wh_cons_create",
     "wh_cons_sign", "wh_cons_send", "wh_op_create", "wh_op_sign",
     "wh_op_send", "wh_rbf_send", "wh_bump", "wh_chain_send"}

\* C9: a failure of an RPC made inside one of the seven waste patterns never
\* aborts the scenario: the process never exits with code 1 on an error
\* thrown by such a call.
C9_PatternFailureNeverAborts ==
    (exitCode = 1) => (origin \notin PatternLabels)

RECURSIVE LastOkTxid(_, _)
\* the txid of the last successful bump among the first k, "rbf" (the
\* original RBF send) if there is none
LastOkTxid(log, k) ==
    IF k = 0 THEN "rbf"
    ELSE IF log[k].err = NoErr THEN log[k].txid ELSE LastOkTxid(log, k - 1)

\* C10: whatever bumpfee calls succeed or fail, all three bumps are issued,
\* in order, with the fee rates 10, 15, 20; each targets the txid of the last
\* successful bump so far (the RBF send if none), and the txid held at the
\* end is that of the last successful bump.
C10_BumpLoop ==
    /\ (pc = "wh_bump") =>
           /\ Len(bumps) = loopIx
           /\ Len(bumps) < 3
           /\ txid = LastOkTxid(bumps, Len(bumps))
    /\ (pc = "wh_rbf_mine" /\ txid # "none") =>
           /\ Len(bumps) = 3
           /\ \A k \in 1..3 :
                 /\ bumps[k].rate = <<10, 15, 20>>[k]
                 /\ bumps[k].target = LastOkTxid(bumps, k - 1)
           /\ txid = LastOkTxid(bumps, 3)
           /\ txid \in {"rbf"} \cup {bumps[k].txid : k \in {m \in 1..3 : bumps[m].err = NoErr}}

\* the second bump failed, the first and the third succeeded
C10_Witness ==
    /\ pc = "wh_rbf_mine"
    /\ Len(bumps) = 3
    /\ bumps[1].err = NoErr
    /\ bumps[2].err # NoErr
    /\ bumps[3].err = NoErr
    /\ bumps[3].target = "bump1"
    /\ txid = "bump3"

----------------------------------------------------------------------------
(* Claims about failures and the exit code, checked under SpecWaste *)

\* the steps of mine() and of loadOrCreateWallet
FatalLabels == {"mine_addr", "mine_gen"} \cup AcqLabels

\* C11: a failure of a mine() step or of a wallet acquisition is fatal
\* wherever it occurs: once such a step has thrown, the error is in the hands
\* of the runner's catch and the process exits with code 1.
C11_MineFailureIsFatal ==
    (origin \in FatalLabels) =>
        \/ pc = "run_catch"
        \/ pc = "exit" /\ exitCode = 1

----------------------------------------------------------------------------
(* Claims about the runner, checked under SpecSetup *)

\* the fixture files written so far
Written == {f \in {ConfigPath("privacy_good"), ConfigPath("privacy_bad"),
                   ConfigPath("waste_heavy")} : f \in DOMAIN fixtures}

\* C12: run with scenario "privacy-good", the program ends normally only
\* with the fixture privacy_good_caravan.json written, its quorum being
\* 2 required signers of 2.
C12_PrivacyGoodEndToEnd ==
    (argScenario = "privacy-good" /\ pc = "exit" /\ exitCode = 0) =>
        /\ ConfigPath("privacy_good") \in Written
        /\ fixtures[ConfigPath("privacy_good")].quorum
             = [requiredSigners |-> 2, totalSigners |-> 2]

\* C13: a completed privacyGood run made exactly 10 sends of 1.0, each to the
\* address requested in its own round, the 10 destinations pairwise distinct,
\* each send followed by exactly one block before the next send, and every
\* round ends (after getnewaddress, send, mine 1, syncWallet in that order)
\* with the coordinator wallet synchronised.
C13_TenFreshSends ==
    /\ (pc = "pg_next") =>
          /\ Len(sends) = loopIx + 1
          /\ sends[Len(sends)].to = addr
          /\ height = sends[Len(sends)].height + 1
          /\ coordinatorWallet \notin unsynced
    /\ (pc = "good_done") =>
          /\ Len(sends) = 10
          /\ \A k \in 1..Len(sends) : sends[k].amount = Btc(1)
          /\ \A k, q \in 1..Len(sends) : k # q => sends[k].to # sends[q].to
          /\ \A k \in 1..(Len(sends) - 1) :
                sends[k + 1].height = sends[k].height + 1
          /\ height = sends[Len(sends)].height + 1

C13_Witness == pc = "good_done" /\ Len(sends) = 10 /\ thrown = NoErr

\* the entries of the send log that pay address a
PaidTo(a) == {k \in 1..Len(sends) : sends[k].to = a}

\* C14: in a privacyBad run whose mix was broadcast, the reused address is the
\* destination of at least 6 transactions: exactly 5 sendtoaddress of 2.0 to
\* the one address obtained at line 551, then the mix, paying a positive
\* amount to that same address.
C14_ReusedAddressPaidSixTimes ==
    (\E k \in 1..Len(sends) : sends[k].via = "sendrawtransaction") =>
        /\ Cardinality(PaidTo(reusedAddr)) >= 6
        /\ Len(sends) = 6
        /\ \A k \in 1..5 :
              sends[k] = [via |-> "sendtoaddress", to |-> reusedAddr,
                          amount |-> Btc(2), height |-> sends[1].height]
        /\ sends[6].via = "sendrawtransaction"
        /\ sends[6].to = reusedAddr
        /\ sends[6].amount > 0

C14_Witness ==
    /\ pc = "bad_done"
    /\ thrown = NoErr
    /\ Len(sends) = 6
    /\ sends[6].via = "sendrawtransaction"

\* C15: once createmultisig has answered, and up to and including the return
\* of setupMultisigWithTwoWallets, the multisig address and redeemScript are
\* those of createmultisig with threshold 2 on the public key of signer
\* slot 1 followed by that of signer slot 2.
C15_MultisigFromOrderedKeys ==
    (multisig # NoMultisig) =>
        /\ Len(signers) = 2
        /\ multisig.address
             = Script("address", 2, <<signers[1].pubkey, signers[2].pubkey>>)
        /\ multisig.redeemScript
             = Script("redeemScript", 2, <<signers[1].pubkey, signers[2].pubkey>>)

C15_Witness ==
    /\ pc = "wh_dust_init"
    /\ multisig # NoMultisig
    /\ signers[1].pubkey # signers[2].pubkey

\* C16: the tail of setupMultisigWithTwoWallets runs in one order.  The funding
\* send follows createmultisig on the ordered keys and sends 10 from the
\* coordinator to the multisig address; the mine that follows it is of 1 block
\* on the coordinator and adds exactly one block; the synchronisation loop
\* starts after that block at the first signer and takes the signers' wallets
\* one by one without further blocks; the function returns only from that
\* loop, after the wallet of the last signer was synchronised.
C16_FundMineSyncAll ==
    [][ /\ (pc' = "sm_send") =>
              /\ pc = "sm_multisig"
              /\ multisig' = MultisigOf(2, Pubkeys(signers))
        /\ (pc' = "sm_mine") =>
              /\ pc = "sm_send"
              /\ fundingTxid' = [from |-> coordinatorWallet,
                                 to |-> multisig.address,
                                 amount |-> Btc(10)]
        /\ (pc = "sm_mine") =>
              /\ pc' = "mine_addr"
              /\ mwallet' = coordinatorWallet
              /\ mblocks' = 1
        /\ (pc' = "sm_sync_loop") =>
              \/ /\ pc = "mine_gen"
                 /\ height' = height + 1
                 /\ j' = 1
              \/ /\ pc = "sync_ret"
                 /\ height' = height
                 /\ j' = j
        /\ (pc = "sm_sync_loop" /\ pc' = "sync_info") =>
              /\ j \in 1..Len(signers)
              /\ swallet' = signers[j].wallet
              /\ j' = j + 1
        /\ (pc' = "wh_dust_init") =>
              /\ pc = "sm_sync_loop"
              /\ j = Len(signers) + 1
              /\ fundingTxid # NoTx
              /\ height' = height
              /\ thrown' = NoErr
      ]_vars

C16_Witness ==
    /\ pc = "wh_dust_init"
    /\ thrown = NoErr
    /\ unsynced = {}
    /\ height > 0

\* C17: a run that ends with the fatal exit code 1 has written no fixture for
\* its scenario; a fixture that was written lists the two signers' xpub and
\* fingerprint in slot order.
C17_AbortWritesNoFixture ==
    /\ (pc = "exit" /\ exitCode = 1) =>
          ConfigPath("waste_heavy") \notin DOMAIN fixtures
    /\ (ConfigPath("waste_heavy") \in DOMAIN fixtures) =>
          LET keys == fixtures[ConfigPath("waste_heavy")].extendedPublicKeys
          IN  /\ Len(keys) = 2
              /\ \A m \in 1..2 : /\ keys[m].xpub = signers[m].xpub
                                 /\ keys[m].xfp = signers[m].xfp

\* C18: a run of scenario "all" that ends normally has run every generator:
\* the fixtures of privacy-good, privacy-bad and waste-heavy are all written.
C18_AllRunsEveryGenerator ==
    (argScenario = "all" /\ pc = "exit" /\ exitCode = 0) =>
        Written = {ConfigPath("privacy_good"), ConfigPath("privacy_bad"),
                   ConfigPath("waste_heavy")}

\* the steps of testMultisigSpending after which the transaction is broadcast
BroadcastLabels == {"tms_mine", "tms_done"}

\* C19: testMultisigSpending never fails the run.  The runner's catch is only
\* entered by an error of the generator, never from the test; the test's own
\* handler clears the error and continues to the runner's summary.  Signer 2
\* signs after signer 1 and signs signer 1's output; the transaction is
\* broadcast only when the second signing reports complete, and a complete
\* second signing always proceeds to the broadcast; an incomplete one returns
\* normally; an empty list of unspent outputs returns before any transaction
\* is created.
C19_TestNeverFailsRun ==
    /\ [](pc \in {"tms_send"} \cup BroadcastLabels =>
            /\ signed2.complete
            /\ signed2.hex = <<signer1, signer2>>
            /\ signer1 = SignerName("waste_heavy", 0)
            /\ signer2 = SignerName("waste_heavy", 1))
    /\ [][ /\ (pc' = "run_catch") => stack[Len(stack)].ret = "run_test"
           /\ (pc = "tms_catch") => (pc' = "run_done" /\ thrown' = NoErr)
           /\ (pc' = "tms_sign2") => (pc = "tms_sign1" /\ signed1'.hex = <<signer1>>)
           /\ (pc' = "tms_send") => pc = "tms_sign2"
           /\ (pc = "tms_sign2" /\ signed2' # signed2) =>
                 IF signed2'.complete
                 THEN pc' = "tms_send"
                 ELSE pc' = "run_done" /\ thrown' = NoErr
           /\ (pc' = "tms_addr") => (pc = "tms_list" /\ tutxos' # <<>>)
           /\ (pc = "tms_list" /\ pc' = "run_done") =>
                 (tutxos' = <<>> /\ thrown' = NoErr)
           /\ (pc' = "tms_create") => pc = "tms_addr"
         ]_vars

C19_Witness ==
    /\ pc = "tms_done"
    /\ signed2.complete
    /\ signed2.hex = <<signer1, signer2>>

\* C20: the dust step.  When sendmany is issued its output map has exactly 20
\* entries, each of 0.00001 BTC, built by 20 getnewaddress calls that came
\* first; sendmany is reached once, from the last address request; when it
\* succeeds the map is sent as built and the only thing that follows is
\* mine(coordinatorWallet, 1), which adds exactly one block before the next
\* pattern starts.
C20_DustSendMany ==
    /\ [](pc \in {"wh_dust_send", "wh_dust_mine"} =>
            /\ Cardinality(DOMAIN dustOutputs) = 20
            /\ \A a \in DOMAIN dustOutputs : dustOutputs[a] * 100000 = Btc(1)
            /\ loopIx = 20)
    /\ [][ /\ (pc' = "wh_dust_send") =>
                 /\ pc = "wh_dust_addr"
                 /\ loopIx = 19
                 /\ loopIx' = 20
           /\ (pc = "wh_dust_addr") =>
                 \/ /\ loopIx' = loopIx + 1
                    /\ Cardinality(DOMAIN dustOutputs')
                         = Cardinality(DOMAIN dustOutputs) + 1
                 \/ thrown' # NoErr
           /\ (pc' = "wh_dust_mine") =>
                 (pc = "wh_dust_send" /\ dustOutputs' = dustOutputs)
           /\ (pc = "wh_dust_mine") =>
                 (pc' = "mine_addr" /\ mwallet' = coordinatorWallet /\ mblocks' = 1)
           /\ (pc' = "wh_small_addr" /\ pc = "mine_gen") => height' = height + 1
         ]_vars

C20_Witness ==
    /\ pc = "wh_dust_mine"
    /\ Cardinality(DOMAIN dustOutputs) = 20
    /\ thrown = NoErr

C22_RescanIffExhausted ==
    /\ [](/\ (pc = "sync_poll") => (polls = attempts /\ attempts < 20 /\ rescans = 0)
          /\ (pc = "sync_rescan") => (polls = 20 /\ attempts = 20 /\ rescans = 0)
          /\ (pc = "sync_ret") =>
                IF rescans = 0
                THEN attempts < 20 /\ polls = attempts + 1
                ELSE rescans = 1 /\ attempts = 20 /\ polls = 20)
    /\ [][ /\ (pc = "sync_poll" /\ attempts' = attempts) =>
                 (pc' = "sync_check" /\ polls' = polls + 1)
           /\ (pc = "sync_poll" /\ attempts' # attempts) =>
                 /\ attempts' = attempts + 1
                 /\ polls' = polls + 1
                 /\ pc' = IF attempts' < 20 THEN "sync_poll" ELSE "sync_check"
           /\ (pc = "sync_check") =>
                 /\ polls' = polls
                 /\ pc' = IF attempts = 20 THEN "sync_rescan" ELSE "sync_ret"
           /\ (pc = "sync_rescan") => (pc' = "sync_ret" /\ polls' = polls)
         ]_vars

C22_Witness == pc = "sync_ret" /\ polls = 20 /\ rescans = 0 /\ attempts = 19

\* the steps of the fallback of lines 200-219 (tiers 2 and 3)
FallbackLabels == {"cts_fb_addr", "cts_fb_info", "cts_fb_winfo"}

\* C23: the fallback tiers of key extraction run only when descriptor parsing
\* yielded no usable fingerprint and xpub, so that they never replace values
\* the descriptor gave: whenever the fallback is running, xpub and xfp still
\* hold their defaults.
C23_FallbackOnlyWithoutDescriptorKeys ==
    (pc \in FallbackLabels) => (xpub = <<>> /\ xfp = Zero8)

\* C24: the funding phase of a signer slot.  A wallet whose first balance is at
\* least the funding threshold of 50 goes straight to key extraction; a wallet
\* below it is mined to; whenever the balance read after the first round and
\* its sync is still below the threshold, the second round is run; key
\* extraction starts only from one of the balance checks of the phase.
C24_SecondRoundWhileUnderfunded ==
    [][ /\ (pc = "cts_bal" /\ thrown' = NoErr) =>
              pc' = IF currentBalance' >= Btc(50) THEN "cts_desc" ELSE "cts_mine1"
        /\ (pc = "cts_bal2" /\ thrown' = NoErr /\ currentBalance' < Btc(50)) =>
              pc' = "cts_mine2"
        /\ (pc' = "cts_desc") => pc \in {"cts_bal", "cts_bal2", "cts_bal3"}
      ]_vars

\* the steps of wasteHeavy's seven numbered patterns, their mines excluded
StepLabels ==
    <<{"wh_dust_init", "wh_dust_addr", "wh_dust_send", "wh_dust_mine"},
      {"wh_small_addr", "wh_small_send", "wh_small_mine"},
      {"wh_odd_addr", "wh_odd_send", "wh_odd_mine"},
      {"wh_cons_list", "wh_cons_addr", "wh_cons_create", "wh_cons_sign",
       "wh_cons_send", "wh_cons_mine"},
      {"wh_op_addr", "wh_op_list", "wh_op_create", "wh_op_sign", "wh_op_send",
       "wh_op_mine"},
      {"wh_rbf_addr", "wh_rbf_send", "wh_bump", "wh_rbf_mine"},
      {"wh_chain_addr", "wh_chain_send", "wh_chain_mine"}>>

\* C25: wasteHeavy starts at height 1 (the block of the multisig funding).
\* Step k of the seven runs at height k: each earlier step was followed by
\* exactly one block, whether its transactions were sent, skipped or failed in
\* a caught block; each step's mine is of 1 block; after step 7 the height is
\* 8.  The chained sends that were accepted are, in order, 2.0, 1.0 and 0.5,
\* all broadcast at the height of step 7, with no block between them.
C25_OneBlockPerStep ==
    /\ [](/\ \A q \in 1..7 : (pc \in StepLabels[q]) => height = q
          /\ (pc \in {"wh_final_sync", "wh_save"}) => height = 8
          /\ (pc \in {"wh_chain_mine", "wh_final_sync", "wh_save"}) =>
                /\ Len(sends) <= 3
                /\ \A q \in 1..Len(sends) :
                      /\ sends[q].amount * 2 = <<Btc(4), Btc(2), Btc(1)>>[q]
                      /\ sends[q].height = 7)
    /\ [][ \A q \in 1..7 :
             (pc \in StepLabels[q] /\ pc' = "mine_addr") =>
                 (mblocks' = 1 /\ mwallet' = coordinatorWallet)
         ]_vars

C25_Witness ==
    /\ pc = "wh_save"
    /\ height = 8
    /\ Len(sends) = 3
    /\ sends[3].amount * 2 = Btc(1)

\* the total of the first min(5, count) outputs of a listunspent answer, less
\* the fee of 0.0001 BTC
FirstFiveLessFee(l) ==
    SumAmounts(SubSeq(l, 1, IF Len(l) < 5 THEN Len(l) ELSE 5)) - (Btc(1) \div 10000)

\* C26: the privacyBad mix.  The transaction is created, signed and broadcast
\* only with at least one unspent output and a positive output amount, which
\* is the sum of the first min(5, count) listed outputs minus 0.0001; the one
\* output, of that amount, pays the reused address.  With no unspent output or
\* an amount that is not positive, the step is skipped with no error.  Either
\* way mine(coordinatorWallet, 1) and syncWallet follow before the fixture is
\* saved.
C26_MixFirstFiveLessFee ==
    /\ [](/\ (pc \in {"pb_create", "pb_sign", "pb_mix"}) =>
                /\ Len(utxos) > 0
                /\ amount = FirstFiveLessFee(utxos)
                /\ amount > 0
          /\ \A q \in 1..Len(sends) :
                (sends[q].via = "sendrawtransaction") =>
                    /\ sends[q].to = reusedAddr
                    /\ sends[q].amount = FirstFiveLessFee(utxos)
                    /\ q = Len(sends))
    /\ [][ /\ (pc = "pb_list" /\ pc' = "pb_mine2") =>
                 /\ thrown' = NoErr
                 /\ sends' = sends
                 /\ (utxos' = <<>> \/ FirstFiveLessFee(utxos') <= 0)
           /\ (pc = "pb_list" /\ thrown' = NoErr) =>
                 pc' \in {"pb_create", "pb_mine2"}
           /\ (pc' = "pb_create") => pc = "pb_list"
           /\ (pc' = "pb_mix") => pc = "pb_sign"
           /\ (pc = "pb_mine2") =>
                 (pc' = "mine_addr" /\ mblocks' = 1 /\ mwallet' = coordinatorWallet)
           /\ (pc = "pb_sync2") => (pc' = "sync_info" /\ swallet' = coordinatorWallet)
           /\ (pc' = "pb_save") => pc = "sync_ret"
         ]_vars

C26_Witness ==
    /\ pc = "pb_save"
    /\ Len(utxos) > 5
    /\ Len(sends) = 6
    /\ sends[6].amount = FirstFiveLessFee(utxos)

\* C27: the convergence test of syncWallet does not depend on the chain.  At
\* every poll, whatever the height read at the start and whether or not blocks
\* were mined to the wallet since it was last synchronised, a positive balance
\* answer ends the polling; the height read at the start is not touched by
\* the loop; a call whose first poll converges returns after exactly one
\* getbalance, with no rescan.
C27_ConvergenceIgnoresChain ==
    /\ [](/\ (pc = "sync_poll") => ENABLED (SyncPoll /\ attempts' = attempts)
          /\ (pc = "sync_ret" /\ attempts = 0) => (polls = 1 /\ rescans = 0))
    /\ [][ /\ (pc = "sync_poll" /\ attempts' = attempts) =>
                 (pc' = "sync_check" /\ polls' = polls + 1)
           /\ (pc \in {"sync_poll", "sync_check", "sync_rescan"}) =>
                 currentHeight' = currentHeight
         ]_vars

C27_Witness ==
    /\ pc = "sync_ret"
    /\ polls = 1
    /\ rescans = 0
    /\ swallet \in unsynced
    /\ currentHeight = height
    /\ height >= 101

====
